---- MODULE Spec2Model ----
(***************************************************************************)
(* CloudP2P: the peer coordination core of src/src/server/middleware.rs    *)
(* (election, heartbeats, failure detection, dispatch, task ledger) and    *)
(* the client request loop of src/src/client/middleware.rs.                *)
(*                                                                         *)
(* Time is counted in whole seconds (current_timestamp).  Frames travel    *)
(* on one FIFO link per ordered pair of peers (the mpsc channel of         *)
(* connect_to_peers followed by its TCP stream).  Frames and the 100 ms    *)
(* delayed election start are faster than a second: the clock advances     *)
(* only when they are done.                                                *)
(***************************************************************************)
EXTENDS Integers, Sequences, FiniteSets, TLC

\* ------------------------------------------------------------- bounds
MaxTime == 4
MaxRounds == 2
MaxCrashes == 1
MaxAssign == 2
LinkCap == 3
MaxFrames == 4
MaxBeats == 2
MaxStream == 2
MaxHeight == 2
MaxText == 2
MaxData == 10
MaxRecords == 3
MaxSweepFrames == 2
MaxConnects == 2
MaxQueries == 2
MaxTasks == 12

\* ------------------------------------------------- program constants
Servers == {1, 2, 3}
Keys == {1, 2}
request_num == 1
None == 0
heartbeat_interval_secs == 1
election_timeout_secs == 1
failure_timeout_secs == 1
monitor_interval_secs == 1
MAX_SAME_SERVER_POLLS == 10
MAX_CONSECUTIVE_FAILURES == 10
MAX_RESUBMISSION_ATTEMPTS == 3
\* 100 * 1024 * 1024
MAX_MESSAGE_SIZE == 104857600
U31_MAX == 2147483647

\* Readings of the metrics probe (CPU %, available memory %).
SysReadings == {[cpu |-> 0, mem |-> 100], [cpu |-> 2, mem |-> 95]}

Min(a, b) == IF a < b THEN a ELSE b

VARIABLES
    now,                   \* wall clock, seconds
    alive,                 \* processes still running
    sys,                   \* metrics probe reading of each server
    active_tasks,          \* ServerMetrics.active_tasks
    current_leader,        \* Option<u32>, None = 0
    received_alive,
    peer_connections,      \* peer ids with a registered sender
    links,                 \* links[p][q]: frames queued from p to q
    last_heartbeat_times,
    peer_loads,
    task_history,          \* (client, request id) -> assigned_server_id
    rounds,                \* initiate_election calls sleeping in their timeout
    round_count,           \* initiate_election calls started since the initial state
    spawned,               \* delayed election starts (100 ms) not yet run
    startup,               \* servers whose initial election timer is pending
    hb_due,                \* start_heartbeat: interval elapsed
    mon_due,               \* monitor_heartbeats: interval elapsed
    mon_busy,              \* monitor_heartbeats is inside initiate_election
    crashes,
    running,               \* requests whose process_task task is running
    assign_reqs,           \* TaskAssignmentRequest frames in flight
    assign_resps,          \* TaskAssignmentResponse frames of the current round
    task_reqs,             \* TaskRequest frames in flight
    task_resps,            \* TaskResponse frames on the current task connection
    task_acks,             \* TaskAck frames in flight
    status_reqs,           \* TaskStatusQuery frames in flight
    status_resps,          \* TaskStatusResponse frames of the current round
    cpc,                   \* where the client's send_request is
    resubmission_attempt,
    assigned_address,      \* the address is the server's id
    failed_address,
    same_server_count,
    consecutive_failures,
    assign_rounds,         \* broadcast_assignment_request calls so far
    ran,                   \* history: election rounds started
    declared,              \* history: election rounds won
    acks_seen,             \* history: TaskAck frames read by a server
    removes_sent,          \* history: HistoryRemove broadcasts of process_task
    succeeded,             \* history: execute_task returned Ok
    classified,            \* history: classified[s] = peers s classified failed
    last_dispatch,         \* history: inputs and result of the last dispatch
    frames0,               \* history: frames queued in the initial state
    history0,              \* history: task_history in the initial state
    hb_pc,                 \* hb_pc[q] = senders whose Heartbeat q has half applied
    mon_pc,                \* where monitor_heartbeats of each server is in its scan
    sending,               \* sending[s][task] = the send loop that task of s is in
    silent_run,            \* history: status rounds in a row without a response
    stream,                \* frames still to arrive on one accepted connection
    conn_open,             \* handle_connection is still in its loop
    delivered,             \* messages read_message has returned as Ok(Some)
    body_read,             \* body bytes the last read_message call has read
    carrier,               \* the decoded carrier image given to embed_text_bytes
    text,                  \* the bytes of the text given to embed_text_bytes
    stego,                 \* what embed_text_bytes returned
    extracted,             \* what extract_text_bytes returned for it
    sorted_data,           \* the sorted latencies given to percentile
    pct,                   \* the percentile asked for
    pct_result,            \* what percentile returned
    requests,              \* ClientMetrics::requests
    stats,                 \* what aggregate returned
    orphaned_tasks,        \* orphaned_tasks[s] = the keys the monitor of s collected
    mon_panicked,          \* servers whose monitor_heartbeats task has panicked
    client_gone,           \* task connections (server, request) the client has closed
    link_task,             \* where the connect_to_peers task of s for peer q is
    written,               \* history: frames the link tasks have written, with their connection
    query_conn,            \* the client connection to s that carries LeaderQuery
    probe,                 \* what calculate_priority reads: CPU %, tasks, free memory %
    last_priority,         \* what calculate_priority last returned, for which count
    clock_skew             \* how far the wall clock of s is ahead of `now`

vars == <<now, alive, sys, active_tasks, current_leader, received_alive,
          peer_connections, links, last_heartbeat_times, peer_loads,
          task_history, rounds, round_count, spawned, startup, hb_due,
          mon_due, mon_busy, crashes, running, assign_reqs, assign_resps,
          task_reqs, task_resps, task_acks, status_reqs, status_resps, cpc,
          resubmission_attempt, assigned_address, failed_address,
          same_server_count, consecutive_failures, assign_rounds, ran, declared,
          acks_seen, removes_sent, succeeded, classified, last_dispatch,
          frames0, history0, hb_pc, mon_pc, sending, silent_run, stream,
          conn_open, delivered, body_read, carrier, text, stego, extracted,
          sorted_data, pct, pct_result, requests, stats, orphaned_tasks,
          mon_panicked,
          client_gone,
          link_task,
          written,
          query_conn,
          probe,
          last_priority,
          clock_skew>>

electionVars == <<current_leader, received_alive, rounds, round_count, spawned,
                  startup, ran, declared>>
detectorVars == <<last_heartbeat_times, peer_loads, mon_due, mon_busy, classified>>
clockVars == <<now, hb_due>>
clientNetVars == <<assign_reqs, assign_resps, task_reqs, task_resps, task_acks,
                   status_reqs, status_resps>>
clientVars == <<cpc, resubmission_attempt, assigned_address, failed_address,
                same_server_count, consecutive_failures, assign_rounds, succeeded,
                silent_run>>
taskVars == <<active_tasks, running, acks_seen, removes_sent>>
fixedVars == <<sys, crashes, frames0, history0, clock_skew>>
stepVars == <<hb_pc, mon_pc, sending>>
taskConnVars == <<client_gone>>
linkVars == <<link_task, written>>
queryVars == <<query_conn>>
probeVars == <<probe, last_priority>>
connVars == <<taskConnVars, linkVars, queryVars, probeVars>>
serverVars == <<electionVars, detectorVars, clockVars, clientNetVars,
                clientVars, taskVars, fixedVars, stepVars, alive,
                peer_connections, links, task_history, last_dispatch,
                orphaned_tasks, mon_panicked>>
clusterVars == <<serverVars, connVars>>
readerVars == <<stream, conn_open, delivered, body_read>>
codecVars == <<carrier, text, stego, extracted>>
percentileVars == <<sorted_data, pct, pct_result>>
metricsVars == <<requests, stats>>
calcVars == <<readerVars, codecVars, percentileVars, metricsVars, connVars>>
sweepVars == <<orphaned_tasks, mon_panicked>>
pureVars == <<calcVars, sweepVars>>

\* ------------------------------------------------------------- metrics

\* A variant without the cap on the task term.
calculate_priority_uncapped(cpu, tasks, mem) ==
    5 * cpu + 3 * (tasks * 10) + 2 * (100 - mem)

\* ServerMetrics::calculate_priority, scaled by 10 to stay in the integers:
\* 0.5*cpu + 0.3*min(tasks/10, 1)*100 + 0.2*(100 - mem).
calculate_priority(cpu, tasks, mem) ==
    5 * cpu + 3 * Min(tasks * 10, 100) + 2 * (100 - mem)

get_load(s) == calculate_priority(sys[s].cpu, active_tasks[s], sys[s].mem)

\* process_task on the machine the probe watches: task_started.
ProbeTaskStarted ==
    /\ probe.tasks < MaxTasks
    /\ probe' = [probe EXCEPT !.tasks = @ + 1]
    /\ UNCHANGED <<last_priority, serverVars, taskConnVars, linkVars, queryVars,
                   readerVars, codecVars, percentileVars, metricsVars>>

\* ServerMetrics::calculate_priority is called (get_load, a heartbeat, an
\* election round).
CalculatePriority ==
    /\ last_priority' = [sampled |-> TRUE, tasks |-> probe.tasks,
                         score |-> calculate_priority(probe.cpu, probe.tasks, probe.mem)]
    /\ UNCHANGED <<probe, serverVars, taskConnVars, linkVars, queryVars,
                   readerVars, codecVars, percentileVars, metricsVars>>

\* ------------------------------------------------------------ peer links

EmptyLinks == [p \in Servers |-> [q \in Servers |-> <<>>]]

\* Peers a frame handed to broadcast reaches: a write to a dead peer fails.
Reach(s) == peer_connections[s] \cap alive

CanBroadcast(s) == \A q \in Reach(s) : Len(links[s][q]) < LinkCap

\* ServerMiddleware::broadcast
broadcast(lk, s, m) ==
    [p \in Servers |-> [q \in Servers |->
        IF p = s /\ q \in Reach(s) THEN Append(lk[p][q], m) ELSE lk[p][q]]]

\* ServerMiddleware::send_to_peer
send_to_peer(lk, s, peer_id, m) ==
    [lk EXCEPT ![s][peer_id] = IF peer_id \in Reach(s) THEN Append(@, m) ELSE @]

\* connect_to_peers: a failed write ends the sender task, which unregisters.
AfterWrite(pc, s) == [pc EXCEPT ![s] = @ \cap alive]

Pop(lk, p, q) == [lk EXCEPT ![p][q] = Tail(@)]

\* connect_to_peers, the task spawned for peer q, in its steps.  links[s][q]
\* is the mpsc channel of the connection; a frame written has left it.

\* `rx.recv().await` yields the next queued frame.
LinkRecv(s, q) ==
    /\ s \in alive
    /\ link_task[s][q].at = "connected"
    /\ links[s][q] # <<>>
    /\ link_task' = [link_task EXCEPT ![s][q].at = "writing",
                                      ![s][q].msg = <<Head(links[s][q])>>]
    /\ links' = Pop(links, s, q)
    /\ UNCHANGED <<electionVars, detectorVars, clockVars, clientNetVars,
                   clientVars, taskVars, fixedVars, readerVars, codecVars,
                   percentileVars, metricsVars, sweepVars, stepVars, alive,
                   peer_connections, task_history, last_dispatch, taskConnVars,
                   queryVars, probeVars, written>>

\* `conn.write_message(&msg).await` returns Ok.
LinkWriteOk(s, q) ==
    /\ s \in alive
    /\ link_task[s][q].at = "writing"
    /\ written' = written \cup
           {[from |-> s, to |-> q, conn |-> link_task[s][q].conn,
             msg |-> link_task[s][q].msg[1]]}
    /\ link_task' = [link_task EXCEPT ![s][q].at = "connected",
                                      ![s][q].msg = <<>>]
    /\ UNCHANGED <<electionVars, detectorVars, clockVars, clientNetVars,
                   clientVars, taskVars, fixedVars, readerVars, codecVars,
                   percentileVars, metricsVars, sweepVars, stepVars, alive,
                   peer_connections, links, task_history, last_dispatch,
                   taskConnVars, queryVars, probeVars>>

\* `conn.write_message(&msg).await` returns Err: `break`.
LinkWriteErr(s, q) ==
    /\ s \in alive
    /\ link_task[s][q].at = "writing"
    /\ link_task' = [link_task EXCEPT ![s][q].at = "failed",
                                      ![s][q].msg = <<>>]
    /\ UNCHANGED <<electionVars, detectorVars, clockVars, clientNetVars,
                   clientVars, taskVars, fixedVars, readerVars, codecVars,
                   percentileVars, metricsVars, sweepVars, stepVars, alive,
                   peer_connections, links, task_history, last_dispatch,
                   taskConnVars, queryVars, probeVars, written>>

\* The tasks of s that hold a read guard of peer_connections.
readers_of_peer_connections(s) ==
    {rec \in sending[s] : "peer_connections" \in rec.locks}

\* `server.peer_connections.write().await.remove(&peer_id)`, granted once no
\* read guard is out; the arm then ends, which drops rx and with it the
\* frames still queued.  The task goes to its 2 s sleep.
LinkUnregister(s, q) ==
    /\ s \in alive
    /\ link_task[s][q].at = "failed"
    /\ readers_of_peer_connections(s) = {}
    /\ peer_connections' = [peer_connections EXCEPT ![s] = @ \ {q}]
    /\ links' = [links EXCEPT ![s][q] = <<>>]
    /\ link_task' = [link_task EXCEPT ![s][q].at = "backoff"]
    /\ UNCHANGED <<electionVars, detectorVars, clockVars, clientNetVars,
                   clientVars, taskVars, fixedVars, readerVars, codecVars,
                   percentileVars, metricsVars, sweepVars, stepVars, alive,
                   task_history, last_dispatch, taskConnVars, queryVars,
                   probeVars, written>>

\* After the sleep `TcpStream::connect` succeeds: a new channel is made and
\* its sender registered.  (A connect that fails sleeps again.)
LinkReconnect(s, q) ==
    /\ s \in alive
    /\ link_task[s][q].at = "backoff"
    /\ link_task[s][q].conn < MaxConnects
    /\ readers_of_peer_connections(s) = {}
    /\ peer_connections' = [peer_connections EXCEPT ![s] = @ \cup {q}]
    /\ links' = [links EXCEPT ![s][q] = <<>>]
    /\ link_task' = [link_task EXCEPT ![s][q].at = "connected",
                                      ![s][q].conn = @ + 1]
    /\ UNCHANGED <<electionVars, detectorVars, clockVars, clientNetVars,
                   clientVars, taskVars, fixedVars, readerVars, codecVars,
                   percentileVars, metricsVars, sweepVars, stepVars, alive,
                   task_history, last_dispatch, taskConnVars, queryVars,
                   probeVars, written>>

\* ------------------------------------------------------------- ledger

\* A variant of insert that keeps an entry already there.
HistoryInsertIfAbsent(h, k, a) ==
    [x \in DOMAIN h \cup {k} |-> IF x \in DOMAIN h THEN h[x] ELSE a]

\* HashMap::insert((client_name, request_id), entry)
HistoryInsert(h, k, a) == [x \in DOMAIN h \cup {k} |-> IF x = k THEN a ELSE h[x]]

\* HashMap::remove(&(client_name, request_id))
HistoryRemove(h, k) == [x \in DOMAIN h \ {k} |-> h[x]]

\* monitor_heartbeats: orphaned_tasks of the failed peers, removed
SweepOrphans(h, failed) == [x \in {k \in DOMAIN h : h[k] \notin failed} |-> h[x]]

RemovePeers(m, failed) == [x \in DOMAIN m \ failed |-> m[x]]

EmptyMap == [x \in {} |-> 0]

\* -------------------------------------------------------------- Init

\* The client and the history variables before anything has happened.
ClientIdle ==
    /\ assign_reqs = {} /\ assign_resps = {}
    /\ task_reqs = {} /\ task_resps = {} /\ task_acks = {}
    /\ status_reqs = {} /\ status_resps = {}
    /\ cpc = "assign"
    /\ resubmission_attempt = 0
    /\ assigned_address = None /\ failed_address = None
    /\ same_server_count = 0 /\ consecutive_failures = 0
    /\ silent_run = 0
    /\ assign_rounds = 0
    /\ succeeded = FALSE
    /\ acks_seen = {} /\ removes_sent = {}
    /\ last_dispatch = <<>>

\* The servers' wall clocks agree.
InStep == [s \in Servers |-> 0]

\* No handler, scan or send loop is part-way through.
IdleScan == [todo |-> {}, cur |-> None, leader |-> None]

StepsIdle ==
    /\ hb_pc = [s \in Servers |-> {}]
    /\ mon_pc = [s \in Servers |-> IdleScan]
    /\ sending = [s \in Servers |-> {}]

\* No connection, image, or metrics record is being looked at.
ReaderIdle ==
    /\ stream = <<>>
    /\ conn_open = FALSE
    /\ delivered = <<>>
    /\ body_read = 0

\* A call that has not returned, one that returned Ok(v), one that returned Err.
NoResult == [state |-> "none", value |-> <<>>]
Ok(v) == [state |-> "ok", value |-> v]
Err == [state |-> "err", value |-> <<>>]

NoImage == [width |-> 0, height |-> 0, pixels |-> <<>>]

CodecIdle ==
    /\ carrier = NoImage
    /\ text = <<>>
    /\ stego = NoResult
    /\ extracted = NoResult

PercentileIdle ==
    /\ sorted_data = <<>>
    /\ pct = 0
    /\ pct_result = NoResult

MetricsIdle ==
    /\ requests = <<>>
    /\ stats = NoResult

\* The monitor is not between collecting orphaned tasks and removing them.
NoOrphans == [peer |-> None, keys |-> {}]

SweepIdle ==
    /\ orphaned_tasks = [s \in Servers |-> NoOrphans]
    /\ mon_panicked = {}

\* connect_to_peers: the task is in its `while let Some(msg) = rx.recv()`
\* loop on the first connection, no frame in hand.
LinkUp == [at |-> "connected", msg |-> <<>>, conn |-> 1]

\* An idle machine, and no priority calculated yet.
NoLoad == [cpu |-> 0, tasks |-> 0, mem |-> 100]
NoPriority == [sampled |-> FALSE, tasks |-> 0, score |-> 0]

\* A connection not yet made: no LeaderQuery unread or read, nothing written.
NoQueries == [open |-> FALSE, unread |-> 0, read |-> 0, replies |-> <<>>]

\* No client connection to a server is open, and every peer link is up.
LinksIdle ==
    /\ client_gone = {}
    /\ link_task = [s \in Servers |-> [q \in Servers |-> LinkUp]]
    /\ written = {}
    /\ query_conn = [s \in Servers |-> NoQueries]

ProbeIdle ==
    /\ probe = NoLoad
    /\ last_priority = NoPriority

ConnIdle == LinksIdle /\ ProbeIdle

PureIdle ==
    /\ ReaderIdle /\ CodecIdle /\ PercentileIdle /\ MetricsIdle /\ SweepIdle
    /\ ConnIdle

\* ServerMiddleware::new for every server, all processes just started.
Init ==
    /\ now = 0
    /\ clock_skew = InStep
    /\ alive = Servers
    /\ sys \in [Servers -> SysReadings]
    /\ active_tasks = [s \in Servers |-> 0]
    /\ current_leader = [s \in Servers |-> None]
    /\ received_alive = [s \in Servers |-> FALSE]
    /\ peer_connections = [s \in Servers |-> Servers \ {s}]
    /\ links = EmptyLinks
    /\ last_heartbeat_times = [s \in Servers |-> EmptyMap]
    /\ peer_loads = [s \in Servers |-> EmptyMap]
    /\ task_history = [s \in Servers |-> EmptyMap]
    /\ rounds = [s \in Servers |-> {}]
    /\ round_count = [s \in Servers |-> 0]
    /\ spawned = [s \in Servers |-> 0]
    /\ startup = Servers
    /\ hb_due = [s \in Servers |-> FALSE]
    /\ mon_due = [s \in Servers |-> FALSE]
    /\ mon_busy = [s \in Servers |-> FALSE]
    /\ crashes = 0
    /\ running = [s \in Servers |-> {}]
    /\ ran = {}
    /\ declared = {}
    /\ classified = [s \in Servers |-> {}]
    /\ ClientIdle
    /\ StepsIdle
    /\ PureIdle
    /\ frames0 = <<>>
    /\ history0 = EmptyMap

\* ----------------------------------------------------------- election

\* initiate_election up to its sleep: reset received_alive, sample the
\* priority, broadcast Election.  `rest` are the timed-out peers the monitor
\* still has to process once the call returns; `heard` is history: an Alive
\* has been read since the round began.
StartRound(s, by, rest) ==
    /\ round_count[s] < MaxRounds
    /\ CanBroadcast(s)
    /\ received_alive' = [received_alive EXCEPT ![s] = FALSE]
    /\ links' = broadcast(links, s,
           [type |-> "Election", from_id |-> s, priority |-> get_load(s)])
    /\ peer_connections' = AfterWrite(peer_connections, s)
    /\ rounds' = [rounds EXCEPT ![s] = @ \cup
           {[n |-> round_count[s] + 1, start |-> now, by |-> by, rest |-> rest,
             priority |-> get_load(s), heard |-> FALSE]}]
    /\ round_count' = [round_count EXCEPT ![s] = @ + 1]
    /\ ran' = ran \cup {[id |-> s, priority |-> get_load(s), start |-> now]}

\* run: the initial election timer (3 s + jitter) expires
InitialElection(s) ==
    /\ s \in alive /\ s \in startup
    /\ startup' = startup \ {s}
    /\ StartRound(s, "timer", {})
    /\ UNCHANGED <<current_leader, spawned, declared, detectorVars, clockVars,
                   clientNetVars, clientVars, taskVars, fixedVars, pureVars, stepVars, alive,
                   task_history, last_dispatch>>

\* handle_message (Election): the task spawned there, after its 100 ms sleep
SpawnedElection(s) ==
    /\ s \in alive /\ spawned[s] > 0
    /\ spawned' = [spawned EXCEPT ![s] = @ - 1]
    /\ StartRound(s, "spawn", {})
    /\ UNCHANGED <<current_leader, startup, declared, detectorVars, clockVars,
                   clientNetVars, clientVars, taskVars, fixedVars, pureVars, stepVars, alive,
                   task_history, last_dispatch>>

\* initiate_election after its sleep.  A round the monitor started goes on
\* with the remaining timed-out peers of that scan.
ElectionTimeout(s, r) ==
    /\ s \in alive /\ r \in rounds[s]
    /\ now - r.start >= election_timeout_secs
    /\ CanBroadcast(s)
    /\ rounds' = [rounds EXCEPT ![s] = @ \ {r}]
    /\ IF ~received_alive[s]
       THEN /\ current_leader' = [current_leader EXCEPT ![s] = s]
            /\ links' = broadcast(links, s, [type |-> "Coordinator", leader_id |-> s])
            /\ peer_connections' = AfterWrite(peer_connections, s)
            /\ declared' = declared \cup
                   {[id |-> s, priority |-> r.priority, start |-> r.start]}
       ELSE UNCHANGED <<current_leader, links, peer_connections, declared>>
    /\ IF r.by = "monitor"
       THEN /\ peer_loads' = [peer_loads EXCEPT ![s] = RemovePeers(@, r.rest)]
            /\ last_heartbeat_times' =
                   [last_heartbeat_times EXCEPT ![s] = RemovePeers(@, r.rest)]
            /\ task_history' = [task_history EXCEPT ![s] = SweepOrphans(@, r.rest)]
            /\ classified' = [classified EXCEPT ![s] = @ \cup r.rest]
            /\ mon_busy' = [mon_busy EXCEPT ![s] = FALSE]
       ELSE UNCHANGED <<peer_loads, last_heartbeat_times, task_history, classified,
                        mon_busy>>
    /\ UNCHANGED <<received_alive, round_count, spawned, startup, ran, mon_due,
                   clockVars, clientNetVars, clientVars, taskVars, fixedVars, pureVars, stepVars, alive,
                   last_dispatch>>

\* ------------------------------------------- frames read from a peer

\* handle_connection: the next frame p's link delivers to q
Incoming(p, q, type) ==
    /\ q \in alive /\ p # q
    /\ links[p][q] # <<>>
    /\ Head(links[p][q]).type = type

\* Rounds a server may still have to run: a handler that sets one off waits
\* for room under MaxRounds.
RoundsOwed(s) == round_count[s] + spawned[s] + (IF s \in startup THEN 1 ELSE 0)

\* A variant that also answers a sender under the same load.
not_worse(my_priority, priority) == my_priority <= priority

\* handle_message (Election): `if my_priority < priority`
has_priority_over(my_priority, priority) == my_priority < priority

\* handle_message (Election)
HandleElection(p, q) ==
    /\ Incoming(p, q, "Election")
    /\ LET m == Head(links[p][q])
           my_priority == get_load(q)
       IN  IF has_priority_over(my_priority, m.priority)
           THEN /\ RoundsOwed(q) < MaxRounds
                /\ m.from_id \in Reach(q) => Len(links[q][m.from_id]) < LinkCap
                /\ links' = send_to_peer(Pop(links, p, q), q, m.from_id,
                                [type |-> "Alive", from_id |-> q])
                /\ spawned' = [spawned EXCEPT ![q] = @ + 1]
           ELSE /\ links' = Pop(links, p, q)
                /\ UNCHANGED spawned
    /\ UNCHANGED <<current_leader, received_alive, rounds, round_count, startup, ran,
                   declared, detectorVars, clockVars, clientNetVars, clientVars,
                   taskVars, fixedVars, pureVars, stepVars, alive, peer_connections, task_history,
                   last_dispatch>>

\* handle_message (Alive)
HandleAlive(p, q) ==
    /\ Incoming(p, q, "Alive")
    /\ links' = Pop(links, p, q)
    /\ received_alive' = [received_alive EXCEPT ![q] = TRUE]
    /\ rounds' = [rounds EXCEPT ![q] = {[r EXCEPT !.heard = TRUE] : r \in @}]
    /\ UNCHANGED <<current_leader, round_count, spawned, startup, ran,
                   declared, detectorVars, clockVars, clientNetVars, clientVars,
                   taskVars, fixedVars, pureVars, stepVars, alive, peer_connections, task_history,
                   last_dispatch>>

\* handle_message (Coordinator)
HandleCoordinator(p, q) ==
    /\ Incoming(p, q, "Coordinator")
    /\ links' = Pop(links, p, q)
    /\ current_leader' = [current_leader EXCEPT ![q] = Head(links[p][q]).leader_id]
    /\ UNCHANGED <<received_alive, rounds, round_count, spawned, startup, ran,
                   declared, detectorVars, clockVars, clientNetVars, clientVars,
                   taskVars, fixedVars, pureVars, stepVars, alive, peer_connections, task_history,
                   last_dispatch>>

\* handle_message (Heartbeat)
HandleHeartbeat(p, q) ==
    /\ Incoming(p, q, "Heartbeat")
    /\ LET m == Head(links[p][q])
       IN  /\ last_heartbeat_times' = [last_heartbeat_times EXCEPT ![q] =
                  HistoryInsert(@, m.from_id, m.timestamp)]
           /\ peer_loads' = [peer_loads EXCEPT ![q] = HistoryInsert(@, m.from_id, m.load)]
    /\ links' = Pop(links, p, q)
    /\ UNCHANGED <<electionVars, mon_due, mon_busy, classified, clockVars,
                   clientNetVars, clientVars, taskVars, fixedVars, pureVars, stepVars, alive,
                   peer_connections, task_history, last_dispatch>>

\* handle_message (HistoryAdd)
HandleHistoryAdd(p, q) ==
    /\ Incoming(p, q, "HistoryAdd")
    /\ LET m == Head(links[p][q])
       IN  task_history' = [task_history EXCEPT ![q] =
               HistoryInsert(@, m.key, m.assigned_server_id)]
    /\ links' = Pop(links, p, q)
    /\ UNCHANGED <<electionVars, detectorVars, clockVars, clientNetVars, clientVars,
                   taskVars, fixedVars, pureVars, stepVars, alive, peer_connections, last_dispatch>>

\* handle_message (HistoryRemove)
HandleHistoryRemove(p, q) ==
    /\ Incoming(p, q, "HistoryRemove")
    /\ task_history' = [task_history EXCEPT ![q] =
           HistoryRemove(@, Head(links[p][q]).key)]
    /\ links' = Pop(links, p, q)
    /\ UNCHANGED <<electionVars, detectorVars, clockVars, clientNetVars, clientVars,
                   taskVars, fixedVars, pureVars, stepVars, alive, peer_connections, last_dispatch>>

\* ----------------------------------------- heartbeats and the detector

\* current_timestamp() on server s: the seconds of its own wall clock.
current_timestamp(s) == now + clock_skew[s]

\* A heartbeat frame is on its way to a live peer.
HeartbeatInFlight ==
    \E p \in Servers : \E q \in alive : \E i \in 1..Len(links[p][q]) :
        links[p][q][i].type = "Heartbeat"

\* start_heartbeat: one turn of its loop.  The servers' loops are not in
\* step: a heartbeat has been read by the time the next server sends its own.
SendHeartbeat(s) ==
    /\ s \in alive /\ hb_due[s]
    /\ ~HeartbeatInFlight
    /\ CanBroadcast(s)
    /\ links' = broadcast(links, s, [type |-> "Heartbeat", from_id |-> s,
                                     timestamp |-> current_timestamp(s),
                                     load |-> get_load(s)])
    /\ peer_connections' = AfterWrite(peer_connections, s)
    /\ hb_due' = [hb_due EXCEPT ![s] = FALSE]
    /\ UNCHANGED <<electionVars, detectorVars, now, clientNetVars, clientVars,
                   taskVars, fixedVars, pureVars, stepVars, alive, task_history, last_dispatch>>

\* A u64 as four 16-bit limbs, the least significant first.
LIMB == 65536
u64(n) == <<n % LIMB, n \div LIMB, 0, 0>>

\* u64 subtraction limb by limb: the limbs of (a - b) mod 2^64 from limb i
\* on, given the borrow out of the limbs below.
RECURSIVE sub_limbs(_, _, _, _)
sub_limbs(a, b, i, borrow) ==
    IF i > 4 THEN <<>>
    ELSE LET d == a[i] - b[i] - borrow
         IN  <<d % LIMB>> \o sub_limbs(a, b, i + 1, IF d < 0 THEN 1 ELSE 0)

wrapping_sub(a, b) == sub_limbs(a, b, 1, 0)

\* a > b for two u64.
greater_u64(a, b) ==
    \E i \in 1..4 : a[i] > b[i] /\ \A j \in (i + 1)..4 : a[j] = b[j]

\* monitor_heartbeats: `now - last_seen > timeout` on u64.  With last_seen
\* later than now the subtraction overflows: a build without overflow checks
\* goes on with the wrapped difference.
is_timed_out(n, last_seen) ==
    IF last_seen <= n THEN n - last_seen > failure_timeout_secs
    ELSE greater_u64(wrapping_sub(u64(n), u64(last_seen)),
                     u64(failure_timeout_secs))

\* A scan that also takes a peer it holds no timestamp of for timed out.
timed_out_or_unseen(s) ==
    {p \in Servers \ {s} :
        p \in DOMAIN last_heartbeat_times[s]
            => is_timed_out(current_timestamp(s), last_heartbeat_times[s][p])}

\* monitor_heartbeats: timed_out_peers
timed_out_peers(s) ==
    {p \in DOMAIN last_heartbeat_times[s] :
        is_timed_out(current_timestamp(s), last_heartbeat_times[s][p])}

\* monitor_heartbeats: some `now - last_seen` of the scan overflows.
subtraction_overflows(s) ==
    \E p \in DOMAIN last_heartbeat_times[s] :
        last_heartbeat_times[s][p] > current_timestamp(s)

\* monitor_heartbeats: one turn of its loop.  The timed-out peers come in the
\* map's iteration order: `before` are those met before the failed leader.
\* With the leader among them the turn goes into initiate_election and ends
\* in ElectionTimeout.
MonitorScan(s) ==
    /\ s \in alive /\ mon_due[s] /\ ~mon_busy[s]
    /\ s \notin mon_panicked
    /\ mon_due' = [mon_due EXCEPT ![s] = FALSE]
    /\ LET timed == timed_out_peers(s)
           leader == current_leader[s]
       IN  IF leader \in timed
           THEN \E before \in SUBSET (timed \ {leader}) :
                  LET failed == before \cup {leader}
                  IN  /\ peer_loads' = [peer_loads EXCEPT ![s] = RemovePeers(@, failed)]
                      /\ last_heartbeat_times' =
                             [last_heartbeat_times EXCEPT ![s] = RemovePeers(@, failed)]
                      /\ task_history' =
                             [task_history EXCEPT ![s] = SweepOrphans(@, failed)]
                      /\ classified' = [classified EXCEPT ![s] = @ \cup failed]
                      /\ current_leader' = [current_leader EXCEPT ![s] = None]
                      /\ mon_busy' = [mon_busy EXCEPT ![s] = TRUE]
                      /\ StartRound(s, "monitor", timed \ failed)
                      /\ UNCHANGED <<spawned, startup, declared>>
           ELSE /\ peer_loads' = [peer_loads EXCEPT ![s] = RemovePeers(@, timed)]
                /\ last_heartbeat_times' =
                       [last_heartbeat_times EXCEPT ![s] = RemovePeers(@, timed)]
                /\ task_history' = [task_history EXCEPT ![s] = SweepOrphans(@, timed)]
                /\ classified' = [classified EXCEPT ![s] = @ \cup timed]
                /\ UNCHANGED <<electionVars, mon_busy, links, peer_connections>>
    /\ UNCHANGED <<clockVars, clientNetVars, clientVars, taskVars, fixedVars, pureVars, stepVars, alive,
                   last_dispatch>>

\* The Heartbeat arm of handle_message takes the write lock of
\* last_heartbeat_times, inserts and lets go of it before it takes the write
\* lock of peer_loads.  HeartbeatWriteTime is the first insert.
HeartbeatWriteTime(p, q) ==
    /\ Incoming(p, q, "Heartbeat")
    /\ p \notin hb_pc[q]
    /\ LET m == Head(links[p][q])
       IN  last_heartbeat_times' = [last_heartbeat_times EXCEPT ![q] =
               [x \in DOMAIN @ \cup {m.from_id} |->
                   IF x = m.from_id THEN m.timestamp ELSE @[x]]]
    /\ hb_pc' = [hb_pc EXCEPT ![q] = @ \cup {p}]
    /\ UNCHANGED <<electionVars, peer_loads, mon_due, mon_busy, classified,
                   clockVars, clientNetVars, clientVars, taskVars, fixedVars, pureVars,
                   mon_pc, sending, alive, peer_connections, links, task_history,
                   last_dispatch>>

\* The Heartbeat arm of handle_message: the second insert, and the frame is
\* done with.
HeartbeatWriteLoad(p, q) ==
    /\ q \in alive /\ p \in hb_pc[q]
    /\ LET m == Head(links[p][q])
       IN  peer_loads' = [peer_loads EXCEPT ![q] =
               [x \in DOMAIN @ \cup {m.from_id} |->
                   IF x = m.from_id THEN m.load ELSE @[x]]]
    /\ links' = Pop(links, p, q)
    /\ hb_pc' = [hb_pc EXCEPT ![q] = @ \ {p}]
    /\ UNCHANGED <<electionVars, last_heartbeat_times, mon_due, mon_busy,
                   classified, clockVars, clientNetVars, clientVars, taskVars,
                   fixedVars, pureVars, mon_pc, sending, alive, peer_connections,
                   task_history, last_dispatch>>

\* monitor_heartbeats, lock by lock: the timed-out peers are collected under
\* the read lock of last_heartbeat_times and current_leader is read once.
ScanCollect(s) ==
    /\ s \in alive /\ mon_due[s] /\ ~mon_busy[s]
    /\ s \notin mon_panicked
    /\ mon_pc[s] = IdleScan
    /\ mon_due' = [mon_due EXCEPT ![s] = FALSE]
    /\ mon_pc' = [mon_pc EXCEPT ![s] =
           IF timed_out_peers(s) = {} THEN IdleScan
           ELSE [todo |-> timed_out_peers(s), cur |-> None,
                 leader |-> current_leader[s]]]
    /\ UNCHANGED <<electionVars, last_heartbeat_times, peer_loads, mon_busy,
                   classified, clockVars, clientNetVars, clientVars, taskVars,
                   fixedVars, pureVars, hb_pc, sending, alive, peer_connections, links,
                   task_history, last_dispatch>>

\* monitor_heartbeats in a build with overflow checks: `now - last_seen`
\* panics on a last_seen later than now and the monitor task is gone.
ScanPanics(s) ==
    /\ s \in alive /\ mon_due[s] /\ ~mon_busy[s]
    /\ s \notin mon_panicked
    /\ mon_pc[s] = IdleScan
    /\ subtraction_overflows(s)
    /\ mon_due' = [mon_due EXCEPT ![s] = FALSE]
    /\ mon_panicked' = mon_panicked \cup {s}
    /\ UNCHANGED <<electionVars, last_heartbeat_times, peer_loads, mon_busy,
                   classified, clockVars, clientNetVars, clientVars, taskVars,
                   fixedVars, calcVars, orphaned_tasks, stepVars, alive,
                   peer_connections, links, task_history, last_dispatch>>

\* monitor_heartbeats, lock by lock: peer_loads.write().await.remove(peer_id)
ScanRemoveLoad(s, p) ==
    /\ s \in alive
    /\ mon_pc[s].cur = None /\ p \in mon_pc[s].todo
    /\ peer_loads' = [peer_loads EXCEPT ![s] = RemovePeers(@, {p})]
    /\ mon_pc' = [mon_pc EXCEPT ![s].todo = @ \ {p}, ![s].cur = p]
    /\ UNCHANGED <<electionVars, last_heartbeat_times, mon_due, mon_busy,
                   classified, clockVars, clientNetVars, clientVars, taskVars,
                   fixedVars, pureVars, hb_pc, sending, alive, peer_connections, links,
                   task_history, last_dispatch>>

\* monitor_heartbeats, lock by lock:
\* last_heartbeat_times.write().await.remove(peer_id), then the orphan sweep
\* and the leader check for that peer.  With the leader failed the turn goes
\* into initiate_election, as in MonitorScan.
ScanRemoveSeen(s) ==
    /\ s \in alive
    /\ mon_pc[s].cur # None
    /\ LET p == mon_pc[s].cur
       IN  /\ last_heartbeat_times' =
                  [last_heartbeat_times EXCEPT ![s] = RemovePeers(@, {p})]
           /\ task_history' = [task_history EXCEPT ![s] = SweepOrphans(@, {p})]
           /\ classified' = [classified EXCEPT ![s] = @ \cup {p}]
           /\ IF mon_pc[s].leader = p
              THEN /\ current_leader' = [current_leader EXCEPT ![s] = None]
                   /\ mon_busy' = [mon_busy EXCEPT ![s] = TRUE]
                   /\ StartRound(s, "monitor", mon_pc[s].todo)
                   /\ mon_pc' = [mon_pc EXCEPT ![s] = IdleScan]
                   /\ UNCHANGED <<spawned, startup, declared>>
              ELSE /\ mon_pc' = [mon_pc EXCEPT ![s] =
                          IF @.todo = {} THEN IdleScan ELSE [@ EXCEPT !.cur = None]]
                   /\ UNCHANGED <<electionVars, mon_busy, links, peer_connections>>
    /\ UNCHANGED <<peer_loads, mon_due, clockVars, clientNetVars, clientVars,
                   taskVars, fixedVars, pureVars, hb_pc, sending, alive, last_dispatch>>

\* monitor_heartbeats, lock by lock, for the peer its loop is at:
\* last_heartbeat_times.write().await.remove(peer_id), then the keys of the
\* entries assigned to that peer are collected under the read lock of
\* task_history, which is let go of.
SweepCollect(s) ==
    /\ s \in alive
    /\ mon_pc[s].cur # None /\ orphaned_tasks[s].peer = None
    /\ LET p == mon_pc[s].cur
       IN  /\ last_heartbeat_times' =
                  [last_heartbeat_times EXCEPT ![s] = RemovePeers(@, {p})]
           /\ orphaned_tasks' = [orphaned_tasks EXCEPT ![s] =
                  [peer |-> p,
                   keys |-> {k \in DOMAIN task_history[s] : task_history[s][k] = p}]]
    /\ UNCHANGED <<electionVars, peer_loads, mon_due, mon_busy, classified,
                   clockVars, clientNetVars, clientVars, taskVars, fixedVars,
                   calcVars, mon_panicked, stepVars, alive, peer_connections,
                   links, task_history, last_dispatch>>

\* monitor_heartbeats: `for key in &orphaned_tasks { history.remove(key); }`
remove_orphaned(h, keys) == [x \in DOMAIN h \ keys |-> h[x]]

\* monitor_heartbeats: the `current_leader` its leader check compares the
\* failed peer with is the copy read before the loop over the peers.
leader_checked(snapshot) == snapshot

\* monitor_heartbeats, lock by lock: the collected keys are removed under the
\* write lock of task_history, then the leader check for that peer.  With
\* the leader failed the turn goes into initiate_election, as in MonitorScan.
SweepRemove(s) ==
    /\ s \in alive
    /\ orphaned_tasks[s].peer # None
    /\ LET p == orphaned_tasks[s].peer
       IN  /\ task_history' = [task_history EXCEPT ![s] =
                  remove_orphaned(@, orphaned_tasks[s].keys)]
           /\ classified' = [classified EXCEPT ![s] = @ \cup {p}]
           /\ orphaned_tasks' = [orphaned_tasks EXCEPT ![s] = NoOrphans]
           /\ IF leader_checked(mon_pc[s].leader) = p
              THEN /\ current_leader' = [current_leader EXCEPT ![s] = None]
                   /\ mon_busy' = [mon_busy EXCEPT ![s] = TRUE]
                   /\ StartRound(s, "monitor", mon_pc[s].todo)
                   /\ mon_pc' = [mon_pc EXCEPT ![s] = IdleScan]
                   /\ UNCHANGED <<spawned, startup, declared>>
              ELSE /\ mon_pc' = [mon_pc EXCEPT ![s] =
                          IF @.todo = {} THEN IdleScan ELSE [@ EXCEPT !.cur = None]]
                   /\ UNCHANGED <<electionVars, mon_busy, links, peer_connections>>
    /\ UNCHANGED <<last_heartbeat_times, peer_loads, mon_due, clockVars,
                   clientNetVars, clientVars, taskVars, fixedVars, calcVars,
                   mon_panicked, hb_pc, sending, alive, last_dispatch>>

\* A second passes.  Frames to live peers, delayed election starts, due
\* heartbeats and expired election sleeps have been dealt with by then.
Tick ==
    /\ now < MaxTime
    /\ \A s \in alive :
          /\ ~hb_due[s]
          /\ spawned[s] = 0
          /\ \A r \in rounds[s] : now - r.start < election_timeout_secs
          /\ \A p \in Servers : links[p][s] = <<>>
    /\ now' = now + 1
    /\ hb_due' = [s \in Servers |-> (now + 1) % heartbeat_interval_secs = 0]
    /\ mon_due' = [s \in Servers |-> (now + 1) % monitor_interval_secs = 0]
    /\ UNCHANGED <<electionVars, last_heartbeat_times, peer_loads, mon_busy,
                   classified, clientNetVars, clientVars, taskVars, fixedVars, pureVars, stepVars, alive,
                   peer_connections, links, task_history, last_dispatch>>

\* A server process is killed.  Frames queued for it are never read; frames it
\* had written stay in flight.
Crash(s) ==
    /\ s \in alive /\ crashes < MaxCrashes
    /\ alive' = alive \ {s}
    /\ crashes' = crashes + 1
    /\ links' = [p \in Servers |-> [q \in Servers |->
                    IF q = s THEN <<>> ELSE links[p][q]]]
    /\ assign_reqs' = {m \in assign_reqs : m.to # s}
    /\ task_reqs' = {m \in task_reqs : m.to # s}
    /\ task_acks' = {m \in task_acks : m.to # s}
    /\ status_reqs' = {m \in status_reqs : m.to # s}
    /\ UNCHANGED <<electionVars, detectorVars, clockVars, assign_resps, task_resps,
                   status_resps, clientVars, taskVars, sys, frames0, history0, clock_skew,
                   stepVars,
                   pureVars,
                   peer_connections, task_history, last_dispatch>>

\* No election round is in progress anywhere.
ElectionQuiescent ==
    /\ startup = {}
    /\ \A s \in Servers : rounds[s] = {} /\ spawned[s] = 0
    /\ \A p, q \in Servers : links[p][q] = <<>>

\* The metrics probe of s reads new values (sysinfo refresh).  Readings are
\* held fixed while an election round is in progress.
ProbeChange(s, r) ==
    /\ s \in alive /\ ElectionQuiescent
    /\ r # sys[s]
    /\ sys' = [sys EXCEPT ![s] = r]
    /\ UNCHANGED <<electionVars, detectorVars, clockVars, clientNetVars, clientVars,
                   taskVars, crashes, frames0, history0, clock_skew, stepVars, pureVars,
                   alive,
                   peer_connections,
                   links, task_history, last_dispatch>>

\* ---------------------------------------- frames read from a client

\* A variant that answers whenever some leader is known.
am_i_leader_known(s) == current_leader[s] # None

am_i_leader(s) == current_leader[s] = s

\* Orders in which HashMap::iter may yield the keys ks.
IterOrders(ks) ==
    {o \in [1..Cardinality(ks) -> ks] :
        \A i, j \in 1..Cardinality(ks) : i # j => o[i] # o[j]}

\* A variant of the comparison that also replaces on equal load.
is_lower_or_equal(peer_load, lowest_load) == peer_load <= lowest_load

\* handle_message (TaskAssignmentRequest): `*peer_load < lowest_load`
is_lower(peer_load, lowest_load) == peer_load < lowest_load

\* handle_message (TaskAssignmentRequest): the loop over peer_loads
RECURSIVE best_from(_, _, _, _, _)
best_from(loads, order, i, lowest_load, best_server) ==
    IF i > Len(order) THEN best_server
    ELSE IF is_lower(loads[order[i]], lowest_load)
         THEN best_from(loads, order, i + 1, loads[order[i]], order[i])
         ELSE best_from(loads, order, i + 1, lowest_load, best_server)

\* handle_message (TaskAssignmentRequest)
HandleAssignRequest(s, k) ==
    /\ s \in alive
    /\ [to |-> s, key |-> k] \in assign_reqs
    /\ assign_reqs' = assign_reqs \ {[to |-> s, key |-> k]}
    /\ IF am_i_leader(s)
       THEN /\ CanBroadcast(s)
            /\ \E order \in IterOrders(DOMAIN peer_loads[s]) :
                 LET my_load == get_load(s)
                     best_server == best_from(peer_loads[s], order, 1, my_load, s)
                 IN  /\ task_history' = [task_history EXCEPT ![s] =
                            HistoryInsert(@, k, best_server)]
                     /\ links' = broadcast(links, s,
                            [type |-> "HistoryAdd", key |-> k,
                             assigned_server_id |-> best_server])
                     /\ assign_resps' = assign_resps \cup
                            {[from |-> s, key |-> k, assigned_server_id |-> best_server]}
                     /\ last_dispatch' = <<[leader |-> s, my_load |-> my_load,
                            loads |-> peer_loads[s], best |-> best_server]>>
            /\ peer_connections' = AfterWrite(peer_connections, s)
       ELSE UNCHANGED <<task_history, links, assign_resps, last_dispatch,
                        peer_connections>>
    /\ UNCHANGED <<electionVars, detectorVars, clockVars, task_reqs, task_resps,
                   task_acks, status_reqs, status_resps, clientVars, taskVars,
                   fixedVars, pureVars, stepVars, alive>>

\* ------------------------------------------- sends, one peer at a time

\* A send loop of server s: ServerMiddleware::broadcast called by `task`, with
\* the peers still to be sent to in the order HashMap::iter yields them, and
\* the lock guards the calling task holds meanwhile.
SendLoop(task, m, order, locks, k, best_server) ==
    [task |-> task, msg |-> m, todo |-> order, done |-> {}, locks |-> locks,
     key |-> k, best |-> best_server]

\* tokio's RwLock is fair: a read guard of peer_connections is not handed out
\* while a link task waits for the write guard.
writer_waiting(s) == \E q \in Servers : link_task[s][q].at = "failed"

\* start_heartbeat: the frame is built and broadcast is entered, which takes
\* the read lock of peer_connections.
BeginHeartbeat(s) ==
    /\ s \in alive /\ hb_due[s]
    /\ ~writer_waiting(s)
    /\ \A rec \in sending[s] : rec.task # "heartbeat"
    /\ peer_connections[s] # {}
    /\ hb_due' = [hb_due EXCEPT ![s] = FALSE]
    /\ \E order \in IterOrders(peer_connections[s]) :
          sending' = [sending EXCEPT ![s] = @ \cup
              {SendLoop("heartbeat",
                        [type |-> "Heartbeat", from_id |-> s,
                         timestamp |-> current_timestamp(s),
                         load |-> get_load(s)],
                        order, {"peer_connections"}, None, None)}]
    /\ UNCHANGED <<electionVars, detectorVars, now, clientNetVars, clientVars,
                   taskVars, fixedVars, pureVars, hb_pc, mon_pc, alive, peer_connections,
                   links, task_history, last_dispatch>>

\* handle_message (TaskAssignmentRequest) up to its call of broadcast: the
\* read guard of peer_loads is taken and stays in scope to the end of the
\* arm, the assignee is chosen, the ledger entry is inserted under the write
\* lock of task_history, and broadcast is entered.
BeginDispatch(s, k) ==
    /\ s \in alive
    /\ [to |-> s, key |-> k] \in assign_reqs
    /\ ~writer_waiting(s)
    /\ \A rec \in sending[s] : rec.key # k
    /\ peer_connections[s] # {}
    /\ assign_reqs' = assign_reqs \ {[to |-> s, key |-> k]}
    /\ IF am_i_leader(s)
       THEN \E order \in IterOrders(DOMAIN peer_loads[s]) :
            \E peers \in IterOrders(peer_connections[s]) :
              LET my_load == get_load(s)
                  best_server == best_from(peer_loads[s], order, 1, my_load, s)
              IN  /\ task_history' = [task_history EXCEPT ![s] =
                         HistoryInsert(@, k, best_server)]
                  /\ sending' = [sending EXCEPT ![s] = @ \cup
                         {SendLoop("dispatch",
                                   [type |-> "HistoryAdd", key |-> k,
                                    assigned_server_id |-> best_server],
                                   peers, {"peer_loads", "peer_connections"},
                                   k, best_server)}]
                  /\ last_dispatch' = <<[leader |-> s, my_load |-> my_load,
                         loads |-> peer_loads[s], best |-> best_server]>>
       ELSE UNCHANGED <<task_history, sending, last_dispatch>>
    /\ UNCHANGED <<electionVars, detectorVars, clockVars, assign_resps, task_reqs,
                   task_resps, task_acks, status_reqs, status_resps, clientVars,
                   taskVars, fixedVars, pureVars, hb_pc, mon_pc, alive, peer_connections,
                   links>>

\* broadcast: `tx.send(message.clone()).await` for the next peer.  The send
\* completes once the peer's queue has room; on a closed queue it returns Err
\* and the loop goes on.  After the last peer broadcast returns and its guard
\* of peer_connections is dropped; start_heartbeat then goes back to sleep.
SendStep(s, rec) ==
    /\ s \in alive /\ rec \in sending[s]
    /\ rec.todo # <<>>
    /\ LET q == Head(rec.todo)
           after == [rec EXCEPT !.todo = Tail(@), !.done = @ \cup {q},
                                !.locks = IF Tail(rec.todo) = <<>>
                                          THEN @ \ {"peer_connections"} ELSE @]
       IN  /\ IF q \in Reach(s)
              THEN /\ Len(links[s][q]) < LinkCap
                   /\ links' = send_to_peer(links, s, q, rec.msg)
              ELSE UNCHANGED links
           /\ sending' = [sending EXCEPT ![s] =
                  IF after.todo = <<>> /\ rec.task = "heartbeat"
                  THEN @ \ {rec} ELSE (@ \ {rec}) \cup {after}]
    /\ UNCHANGED <<electionVars, detectorVars, clockVars, clientNetVars, clientVars,
                   taskVars, fixedVars, pureVars, hb_pc, mon_pc, alive, peer_connections,
                   task_history, last_dispatch>>

\* A variant in which the response does not wait for broadcast.
broadcast_entered(rec) == TRUE

\* handle_message (TaskAssignmentRequest): `self.broadcast(history_msg).await`
\* has returned.
broadcast_returned(rec) == rec.todo = <<>>

\* handle_message (TaskAssignmentRequest): the response is written to the
\* client and the arm ends, dropping the guard of peer_loads.
EndDispatch(s, rec) ==
    /\ s \in alive /\ rec \in sending[s]
    /\ rec.task = "dispatch"
    /\ broadcast_returned(rec)
    /\ assign_resps' = assign_resps \cup
           {[from |-> s, key |-> rec.key, assigned_server_id |-> rec.best]}
    /\ sending' = [sending EXCEPT ![s] = @ \ {rec}]
    /\ UNCHANGED <<electionVars, detectorVars, clockVars, assign_reqs, task_reqs,
                   task_resps, task_acks, status_reqs, status_resps, clientVars,
                   taskVars, fixedVars, pureVars, hb_pc, mon_pc, alive, peer_connections,
                   links, task_history, last_dispatch>>

\* A client's TaskAssignmentRequest for request k reaches server s.
RequestArrives(s, k) ==
    /\ s \in alive
    /\ [to |-> s, key |-> k] \notin assign_reqs
    /\ assign_reqs' = assign_reqs \cup {[to |-> s, key |-> k]}
    /\ UNCHANGED <<electionVars, detectorVars, clockVars, assign_resps, task_reqs,
                   task_resps, task_acks, status_reqs, status_resps, clientVars,
                   taskVars, fixedVars, pureVars, stepVars, alive, peer_connections, links,
                   task_history, last_dispatch>>

\* ServerMetrics::task_started on active_tasks
task_started(n) == n + 1

\* A variant that leaves the counter as it is.
task_left_counted(n) == n

\* ServerMetrics::task_finished on active_tasks: fetch_sub on the AtomicU64;
\* a value below zero here stands for the wrapped one.
task_finished(n) == n - 1

\* ServerCore::encrypt_image: the encoder's bytes, or the text of its error
\* (the capacity check of the steganography module).
encrypt_image(ok) ==
    IF ok THEN [ok |-> TRUE, data |-> <<1>>, error |-> ""]
    ELSE [ok |-> FALSE, data |-> <<>>, error |-> "Image too small for this text"]

\* A variant that does not pass the error text on.
task_response_untold(s, k, encryption_result) ==
    [from |-> s, key |-> k, success |-> encryption_result.ok,
     encrypted_image_data |-> encryption_result.data,
     error_message |-> ""]

\* process_task: the TaskResponse built from encryption_result
task_response(s, k, encryption_result) ==
    [from |-> s, key |-> k, success |-> encryption_result.ok,
     encrypted_image_data |->
         IF encryption_result.ok THEN encryption_result.data ELSE <<>>,
     error_message |->
         IF encryption_result.ok THEN "" ELSE encryption_result.error]

\* A client connects to server s and writes the TaskRequest for request k.
TaskRequestArrives(s, k) ==
    /\ s \in alive
    /\ [to |-> s, key |-> k] \notin task_reqs
    /\ k \notin running[s]
    /\ task_reqs' = task_reqs \cup {[to |-> s, key |-> k]}
    /\ task_resps' = {r \in task_resps : r.from # s \/ r.key # k}
    /\ client_gone' = client_gone \ {<<s, k>>}
    /\ UNCHANGED <<electionVars, detectorVars, clockVars, assign_reqs, assign_resps,
                   task_acks, status_reqs, status_resps, clientVars, taskVars,
                   fixedVars, readerVars, codecVars, percentileVars, metricsVars,
                   sweepVars, linkVars, queryVars, probeVars, stepVars, alive,
                   peer_connections, links, task_history, last_dispatch>>

\* The client closes its task connection while the task is being processed.
ClientCloses(s, k) ==
    /\ k \in running[s]
    /\ <<s, k>> \notin client_gone
    /\ client_gone' = client_gone \cup {<<s, k>>}
    /\ UNCHANGED <<electionVars, detectorVars, clockVars, clientNetVars,
                   clientVars, taskVars, fixedVars, readerVars, codecVars,
                   percentileVars, metricsVars, sweepVars, linkVars, queryVars,
                   probeVars, stepVars, alive, peer_connections, links, task_history,
                   last_dispatch>>

\* handle_message (TaskRequest) up to the wait on the response channel:
\* process_task counts the task and spawns the encryption.
HandleTaskRequest(s, k) ==
    /\ s \in alive
    /\ [to |-> s, key |-> k] \in task_reqs
    /\ k \notin running[s]
    /\ task_reqs' = task_reqs \ {[to |-> s, key |-> k]}
    /\ active_tasks' = [active_tasks EXCEPT ![s] = task_started(@)]
    /\ running' = [running EXCEPT ![s] = @ \cup {k}]
    /\ UNCHANGED <<electionVars, detectorVars, clockVars, assign_reqs, assign_resps,
                   task_resps, task_acks, status_reqs, status_resps, clientVars,
                   acks_seen, removes_sent, fixedVars, pureVars, stepVars, alive, peer_connections, links,
                   task_history, last_dispatch>>

\* process_task: the spawned task from the end of the encryption on, and the
\* handler's write of the response, which fails on a connection the client
\* has closed.  ok: whether the encoder succeeded.
FinishTask(s, k, ok) ==
    /\ s \in alive
    /\ k \in running[s]
    /\ CanBroadcast(s)
    /\ task_resps' = IF <<s, k>> \in client_gone THEN task_resps
                     ELSE task_resps \cup {task_response(s, k, encrypt_image(ok))}
    /\ task_history' = [task_history EXCEPT ![s] = HistoryRemove(@, k)]
    /\ links' = broadcast(links, s, [type |-> "HistoryRemove", key |-> k])
    /\ peer_connections' = AfterWrite(peer_connections, s)
    /\ removes_sent' = removes_sent \cup {<<s, k>>}
    /\ active_tasks' = [active_tasks EXCEPT ![s] = task_finished(@)]
    /\ running' = [running EXCEPT ![s] = @ \ {k}]
    /\ UNCHANGED <<electionVars, detectorVars, clockVars, assign_reqs, assign_resps,
                   task_reqs, task_acks, status_reqs, status_resps, clientVars,
                   acks_seen, fixedVars, pureVars, stepVars, alive, last_dispatch>>

\* A variant that answers whether or not a leader is known.
leader_response_always(leader) ==
    <<[type |-> "LeaderResponse", leader_id |-> leader]>>

\* handle_connection (LeaderQuery): the frames written for `leader`
leader_response(leader) ==
    IF leader # None THEN <<[type |-> "LeaderResponse", leader_id |-> leader]>>
    ELSE <<>>

\* A client connects to server s, if it has not yet, and writes a LeaderQuery.
ClientAsksLeader(s) ==
    /\ s \in alive
    /\ query_conn[s].unread + query_conn[s].read < MaxQueries
    /\ query_conn' = [query_conn EXCEPT ![s].open = TRUE, ![s].unread = @ + 1]
    /\ UNCHANGED <<serverVars, taskConnVars, linkVars, probeVars, readerVars,
                   codecVars, percentileVars, metricsVars>>

\* handle_connection: read_message yields a LeaderQuery; the response, if
\* any, is written and the loop continues.
HandleLeaderQuery(s) ==
    /\ s \in alive
    /\ query_conn[s].open
    /\ query_conn[s].unread > 0
    /\ LET leader == current_leader[s]
       IN  query_conn' = [query_conn EXCEPT
               ![s].unread = @ - 1,
               ![s].read = @ + 1,
               ![s].replies = @ \o leader_response(leader)]
    /\ UNCHANGED <<serverVars, taskConnVars, linkVars, probeVars, readerVars,
                   codecVars, percentileVars, metricsVars>>

\* handle_message (TaskAck): the catch-all arm
HandleTaskAck(s, k) ==
    /\ s \in alive
    /\ [to |-> s, key |-> k] \in task_acks
    /\ task_acks' = task_acks \ {[to |-> s, key |-> k]}
    /\ acks_seen' = acks_seen \cup {<<s, k>>}
    /\ UNCHANGED <<electionVars, detectorVars, clockVars, assign_reqs, assign_resps,
                   task_reqs, task_resps, status_reqs, status_resps, clientVars,
                   active_tasks, running, removes_sent, fixedVars, pureVars, stepVars, alive,
                   peer_connections, links, task_history, last_dispatch>>

\* handle_message (TaskStatusQuery): the catch-all arm
HandleTaskStatusQuery(s, k) ==
    /\ s \in alive
    /\ [to |-> s, key |-> k] \in status_reqs
    /\ status_reqs' = status_reqs \ {[to |-> s, key |-> k]}
    /\ UNCHANGED <<electionVars, detectorVars, clockVars, assign_reqs, assign_resps,
                   task_reqs, task_resps, task_acks, status_resps, clientVars,
                   taskVars, fixedVars, pureVars, stepVars, alive, peer_connections, links, task_history,
                   last_dispatch>>

\* ------------------------------------------------------------- client

\* broadcast_assignment_request, broadcast_status_query: the per-server tasks
\* are awaited in address order and a server that does not reply holds its
\* task until the 5 s timeout, so the reply taken is the one of the lowest
\* server, once every server has dealt with its frame.
HasReply(resps, reqs) == resps # {} /\ reqs = {}

\* Every frame written to a live peer has been read: true whenever the client
\* has slept or has sat out a timeout.
Delivered == \A p \in Servers : \A q \in alive : links[p][q] = <<>>

FirstReply(resps) == CHOOSE r \in resps : \A r2 \in resps : r.from <= r2.from

\* send_request: broadcast_assignment_request sends its frames.  The rounds
\* looked at are bounded; every resubmission brings one more.
ClientAssign ==
    /\ cpc = "assign"
    /\ assign_rounds < MaxAssign + resubmission_attempt
    /\ assign_rounds' = assign_rounds + 1
    /\ assign_reqs' = {[to |-> s, key |-> request_num] : s \in alive}
    /\ assign_resps' = {}
    /\ cpc' = "assign_wait"
    /\ UNCHANGED <<electionVars, detectorVars, clockVars, task_reqs, task_resps,
                   task_acks, status_reqs, status_resps, resubmission_attempt,
                   assigned_address, failed_address, same_server_count,
                   consecutive_failures, silent_run, succeeded, taskVars, fixedVars, pureVars, stepVars, alive,
                   peer_connections, links, task_history, last_dispatch>>

\* A variant that takes the responder (leader_id) for the assignee.
assignment_leader(assignment) == assignment.from

\* send_request: `let (assigned_server_id, assigned_address, leader_id) =`,
\* the address handed to execute_task.
assignment_address(assignment) == assignment.assigned_server_id

\* send_request: broadcast_assignment_request returns; on Err the inner loop
\* sleeps and asks again.
ClientAssignResult ==
    /\ cpc = "assign_wait"
    /\ IF HasReply(assign_resps, assign_reqs)
       THEN /\ assigned_address' = assignment_address(FirstReply(assign_resps))
            /\ cpc' = "task"
       ELSE /\ assign_resps = {} /\ assign_reqs = {}
            /\ Delivered
            /\ cpc' = "assign"
            /\ UNCHANGED assigned_address
    /\ UNCHANGED <<electionVars, detectorVars, clockVars, clientNetVars,
                   resubmission_attempt, failed_address, same_server_count,
                   consecutive_failures, silent_run, assign_rounds, succeeded, taskVars,
                   fixedVars, pureVars, stepVars, alive, peer_connections, links, task_history,
                   last_dispatch>>

\* execute_task: send_and_receive_encrypted_image connects and writes the
\* TaskRequest; a refused connection goes to wait_for_reassignment.
ClientSendTask ==
    /\ cpc = "task"
    /\ IF assigned_address \in alive
       THEN /\ task_reqs' = task_reqs \cup {[to |-> assigned_address, key |-> request_num]}
            /\ task_resps' = {}
            /\ cpc' = "task_wait"
            /\ UNCHANGED <<failed_address, same_server_count, consecutive_failures, silent_run>>
       ELSE /\ failed_address' = assigned_address
            /\ same_server_count' = 0
            /\ consecutive_failures' = 0
            /\ silent_run' = 0
            /\ cpc' = "poll"
            /\ UNCHANGED <<task_reqs, task_resps>>
    /\ UNCHANGED <<electionVars, detectorVars, clockVars, assign_reqs, assign_resps,
                   task_acks, status_reqs, status_resps, resubmission_attempt,
                   assigned_address, assign_rounds, succeeded, taskVars, fixedVars, pureVars, stepVars,
                   alive, peer_connections, links, task_history, last_dispatch>>

\* execute_task: send_and_receive_encrypted_image returns.  Ok: the TaskAck is
\* written, execute_task returns Ok, and the Ok arm of send_request ends in
\* the expression statement `Some(encrypted_image_data);`, so the outer loop
\* starts over.  Err (success = false, or the connection closed): on to
\* wait_for_reassignment.
ClientTaskResult ==
    /\ cpc = "task_wait"
    /\ LET replies == {r \in task_resps : r.from = assigned_address /\ r.key = request_num}
       IN  IF \E r \in replies : r.success
           THEN /\ task_acks' = task_acks \cup
                       {[to |-> s, key |-> request_num] : s \in {assigned_address} \cap alive}
                /\ succeeded' = TRUE
                /\ cpc' = "assign"
                /\ UNCHANGED <<failed_address, same_server_count, consecutive_failures, silent_run>>
           ELSE /\ replies # {} \/ assigned_address \notin alive
                /\ failed_address' = assigned_address
                /\ same_server_count' = 0
                /\ consecutive_failures' = 0
                /\ silent_run' = 0
                /\ cpc' = "poll"
                /\ UNCHANGED <<task_acks, succeeded>>
    /\ UNCHANGED <<electionVars, detectorVars, clockVars, assign_reqs, assign_resps,
                   task_reqs, task_resps, status_reqs, status_resps,
                   resubmission_attempt, assigned_address, assign_rounds, taskVars,
                   fixedVars, pureVars, stepVars, alive, peer_connections, links, task_history,
                   last_dispatch>>

\* wait_for_reassignment: broadcast_status_query sends its frames
ClientPoll ==
    /\ cpc = "poll"
    /\ status_reqs' = {[to |-> s, key |-> request_num] : s \in alive}
    /\ status_resps' = {}
    /\ cpc' = "poll_wait"
    /\ UNCHANGED <<electionVars, detectorVars, clockVars, assign_reqs, assign_resps,
                   task_reqs, task_resps, task_acks, resubmission_attempt,
                   assigned_address, failed_address, same_server_count,
                   consecutive_failures, silent_run, assign_rounds, succeeded, taskVars,
                   fixedVars, pureVars, stepVars, alive, peer_connections, links, task_history,
                   last_dispatch>>

\* wait_for_reassignment: `consecutive_failures >= MAX_CONSECUTIVE_FAILURES`
task_lost_late(failures) == failures > MAX_CONSECUTIVE_FAILURES

task_lost(failures) == failures >= MAX_CONSECUTIVE_FAILURES

\* send_request: `is_task_lost && resubmission_attempt < MAX_RESUBMISSION_ATTEMPTS`;
\* every Err of execute_task comes from wait_for_reassignment and says "lost".
may_resubmit_again(attempt) == attempt <= MAX_RESUBMISSION_ATTEMPTS

may_resubmit(attempt) == attempt < MAX_RESUBMISSION_ATTEMPTS

\* wait_for_reassignment: `same_server_count >= MAX_SAME_SERVER_POLLS`
retry_same_server_late(count) == count > MAX_SAME_SERVER_POLLS

retry_same_server(count) == count >= MAX_SAME_SERVER_POLLS

\* wait_for_reassignment: broadcast_status_query returns.  The Err of the
\* last consecutive failure carries "lost", which send_request turns into a
\* resubmission while attempts remain and into `return None` after that.
ClientPollResult ==
    /\ cpc = "poll_wait"
    /\ silent_run' = IF status_resps = {} THEN silent_run + 1 ELSE 0
    /\ IF HasReply(status_resps, status_reqs)
       THEN LET address == FirstReply(status_resps).assigned_server_id
            IN  /\ consecutive_failures' = 0
                /\ IF address # failed_address
                   THEN /\ assigned_address' = address
                        /\ cpc' = "task"
                        /\ UNCHANGED same_server_count
                   ELSE /\ same_server_count' = same_server_count + 1
                        /\ IF retry_same_server(same_server_count + 1)
                           THEN assigned_address' = address /\ cpc' = "task"
                           ELSE cpc' = "poll" /\ UNCHANGED assigned_address
                /\ UNCHANGED resubmission_attempt
       ELSE /\ status_resps = {} /\ status_reqs = {}
            /\ Delivered
            /\ consecutive_failures' = consecutive_failures + 1
            /\ IF task_lost(consecutive_failures + 1)
               THEN IF may_resubmit(resubmission_attempt)
                    THEN /\ resubmission_attempt' = resubmission_attempt + 1
                         /\ cpc' = "assign"
                    ELSE /\ cpc' = "returned_none"
                         /\ UNCHANGED resubmission_attempt
               ELSE cpc' = "poll" /\ UNCHANGED resubmission_attempt
            /\ UNCHANGED <<assigned_address, same_server_count>>
    /\ UNCHANGED <<electionVars, detectorVars, clockVars, clientNetVars,
                   failed_address, assign_rounds, succeeded, taskVars, fixedVars, pureVars, stepVars,
                   alive, peer_connections, links, task_history, last_dispatch>>

\* ------------------------------------------------- length-prefixed frames

\* The prefix sizes a peer can announce: small ones, the ones around the
\* limit, and a very large one.
Lengths == {1, 2, MAX_MESSAGE_SIZE - 1, MAX_MESSAGE_SIZE, MAX_MESSAGE_SIZE + 1,
            U31_MAX}

\* What arrives of one frame before the next one or the end of the stream:
\* `prefix` bytes of the length prefix, which announces `length`, then
\* `body` bytes of the body, which Message::from_bytes can decode or not.
ShortPrefixes == {[prefix |-> n, length |-> 0, body |-> 0, ok |-> FALSE] :
                    n \in 1..3}
ShortBodies == UNION {{[prefix |-> 4, length |-> l, body |-> b, ok |-> FALSE] :
                          b \in {0, l - 1}} : l \in Lengths}
WholeFrames == {[prefix |-> 4, length |-> l, body |-> l, ok |-> o] :
                    l \in Lengths, o \in BOOLEAN}
ArrivingFrames == ShortPrefixes \cup ShortBodies \cup WholeFrames

\* The sender closes the stream after a frame it has not finished.
FrameStreams ==
    {fs \in UNION {[1..n -> ArrivingFrames] : n \in 0..MaxStream} :
        \A i \in 1..(Len(fs) - 1) : fs[i] \in WholeFrames}

too_large_from(length) == length >= MAX_MESSAGE_SIZE

too_large(length) == length > MAX_MESSAGE_SIZE

\* Connection::read_message on what is left of the stream: the result, and
\* the body bytes read_exact has taken off the stream.
read_message(fs) ==
    IF fs = <<>> \/ Head(fs).prefix < 4
    THEN [result |-> "none", read |-> 0]
    ELSE IF too_large(Head(fs).length)
    THEN [result |-> "none", read |-> 0]
    ELSE IF Head(fs).body < Head(fs).length
    THEN [result |-> "err", read |-> Head(fs).body]
    ELSE IF ~Head(fs).ok
    THEN [result |-> "none", read |-> Head(fs).length]
    ELSE [result |-> "some", read |-> Head(fs).length]

\* One turn of the loop of handle_connection: a message goes to its handler
\* and the loop continues, anything else breaks out and drops the socket.
handle_connection ==
    /\ conn_open
    /\ LET r == read_message(stream) IN
        /\ body_read' = r.read
        /\ IF r.result = "some"
           THEN /\ delivered' = Append(delivered, Head(stream))
                /\ stream' = Tail(stream)
                /\ conn_open' = TRUE
           ELSE /\ delivered' = delivered
                /\ stream' = <<>>
                /\ conn_open' = FALSE
    /\ UNCHANGED <<clusterVars, codecVars, percentileVars, metricsVars>>

\* ------------------------------------------------------- steganography

\* Bit j of a byte, most significant first.
bit_of(byte, j) == (byte \div (2 ^ (7 - j))) % 2

\* A number as n big-endian bytes: u32::to_be_bytes for n = 4.
RECURSIVE to_be_bytes(_, _)
to_be_bytes(v, n) ==
    IF n = 0 THEN <<>> ELSE Append(to_be_bytes(v \div 256, n - 1), v % 256)

\* Bits, most significant first, as a number: the `|= bit << (7 - bit_index)`
\* of the extraction loops and u32::from_be_bytes.
RECURSIVE from_bits(_)
from_bits(bits) ==
    IF bits = <<>> THEN 0
    ELSE 2 * from_bits(SubSeq(bits, 1, Len(bits) - 1)) + bits[Len(bits)]

\* The loops visit the pixels row by row and the channels R, G, B of each:
\* the k-th channel visited (from 0) is channel k % 3 of pixel k \div 3.
channel_at(img, k) == img.pixels[(k \div 3) + 1][(k % 3) + 1]

\* embed_text_bytes on a decoded image.  The data is the 4-byte length and
\* the text; the inner loop leaves with `break 'outer` at the first channel
\* that has no data bit left, before put_pixel of the pixel it is in, so a
\* pixel is stored only when all three of its channels took a bit.  The
\* result is encoded as PNG, which keeps the size and every channel value.
embed_text_bytes(img, text_bytes) ==
    LET data_to_embed == to_be_bytes(Len(text_bytes), 4) \o text_bytes
        available_bits == img.width * img.height * 3
        required_bits == Len(data_to_embed) * 8
        data_bit(k) == bit_of(data_to_embed[(k \div 8) + 1], k % 8)
        new_pixel(i) == [c \in 1..3 |->
            (img.pixels[i][c] \div 2) * 2 + data_bit(3 * (i - 1) + c - 1)]
    IN  IF required_bits > available_bits THEN Err
        ELSE Ok([img EXCEPT !.pixels = [i \in 1..Len(img.pixels) |->
                    IF 3 * (i - 1) + 2 < required_bits
                    THEN new_pixel(i) ELSE img.pixels[i]]])

\* String::from_utf8: whether the bytes are well-formed UTF-8.
RECURSIVE valid_utf8(_)
valid_utf8(bs) ==
    LET n == Len(bs)
        cont(i) == i <= n /\ bs[i] \in 128..191
        second(lo, hi) == n >= 2 /\ bs[2] \in lo..hi
    IN  IF bs = <<>> THEN TRUE
        ELSE IF bs[1] < 128 THEN valid_utf8(Tail(bs))
        ELSE IF bs[1] \in 194..223
        THEN cont(2) /\ valid_utf8(SubSeq(bs, 3, n))
        ELSE IF bs[1] \in 224..239
        THEN /\ IF bs[1] = 224 THEN second(160, 191)
                ELSE IF bs[1] = 237 THEN second(128, 159) ELSE cont(2)
             /\ cont(3) /\ valid_utf8(SubSeq(bs, 4, n))
        ELSE IF bs[1] \in 240..244
        THEN /\ IF bs[1] = 240 THEN second(144, 191)
                ELSE IF bs[1] = 244 THEN second(128, 143) ELSE cont(2)
             /\ cont(3) /\ cont(4) /\ valid_utf8(SubSeq(bs, 5, n))
        ELSE FALSE

\* extract_text_bytes on a decoded image: the least significant bits of the
\* first 32 channels are the length, those of the next 8 * length channels
\* the text; a bit the image has no channel for stays 0.
extract_text_bytes(img) ==
    LET lsb(k) == IF k < 3 * img.width * img.height
                  THEN channel_at(img, k) % 2 ELSE 0
        length == from_bits([k \in 1..32 |-> lsb(k - 1)])
        text_bytes == [j \in 1..length |->
            from_bits([b \in 1..8 |-> lsb(32 + 8 * (j - 1) + b - 1)])]
    IN  IF valid_utf8(text_bytes) THEN Ok(text_bytes) ELSE Err

Embed ==
    /\ stego = NoResult
    /\ stego' = embed_text_bytes(carrier, text)
    /\ UNCHANGED <<carrier, text, extracted, clusterVars, readerVars,
                 percentileVars, metricsVars>>

Extract ==
    /\ stego.state = "ok"
    /\ extracted = NoResult
    /\ extracted' = extract_text_bytes(stego.value)
    /\ UNCHANGED <<carrier, text, stego, clusterVars, readerVars,
                 percentileVars, metricsVars>>

\* ------------------------------------------------------ client metrics

\* f64::round of x / 100 for a whole x >= 0: to the nearest whole number,
\* a half going away from zero.
round_hundredths(x) == (2 * x + 100) \div 200

\* percentile(sorted_data, percentile): the product percentile / 100.0 *
\* (len - 1) is exact in f64 for the whole percentiles and lengths used here.
percentile(data, percent) ==
    IF data = <<>> THEN 0
    ELSE LET index == round_hundredths(percent * (Len(data) - 1))
         IN  data[Min(index, Len(data) - 1) + 1]

Percentile ==
    /\ pct_result.state = "none"
    /\ pct_result' = Ok(percentile(sorted_data, pct))
    /\ UNCHANGED <<sorted_data, pct, clusterVars, readerVars, codecVars,
                 metricsVars>>

\* Option<String>::None of a failure reason.
NoReason == ""

\* ClientMetrics::record_request: one more RequestMetric (its start_time, a
\* clock reading no statistic uses, is left out).  The client records its
\* requests while it runs and aggregates when it is done.
record_request(latency, success, failure_reason, assigned_server_id) ==
    /\ stats.state = "none"
    /\ Len(requests) < MaxRecords
    /\ requests' = Append(requests,
            [request_id |-> Len(requests) + 1, latency_ms |-> latency,
             success |-> success, failure_reason |-> failure_reason,
             assigned_server_id |-> assigned_server_id])
    /\ UNCHANGED <<stats, clusterVars, readerVars, codecVars, percentileVars>>

\* sort_unstable of a list of numbers.
RECURSIVE sort_unstable(_)
sort_unstable(xs) ==
    IF xs = <<>> THEN <<>>
    ELSE LET i == CHOOSE i \in 1..Len(xs) : \A j \in 1..Len(xs) : xs[i] <= xs[j]
         IN  <<xs[i]>> \o sort_unstable(SubSeq(xs, 1, i - 1) \o
                                         SubSeq(xs, i + 1, Len(xs)))

RECURSIVE sum(_)
sum(xs) == IF xs = <<>> THEN 0 ELSE Head(xs) + sum(Tail(xs))

\* The requests whose latency enters the latency statistics.
every_latency(r) == TRUE

in_latencies(r) == r.success

\* AggregatedStats::default().
DefaultStats ==
    [total_requests |-> 0, successful_requests |-> 0, failed_requests |-> 0,
     failure_rate |-> [num |-> 0, den |-> 1],
     latency_min_ms |-> 0, latency_max_ms |-> 0,
     latency_avg_ms |-> [num |-> 0, den |-> 1],
     latency_p50_ms |-> 0, latency_p95_ms |-> 0, latency_p99_ms |-> 0,
     server_distribution |-> <<>>, failure_reasons |-> <<>>]

\* ClientMetrics::aggregate; the two f64 quotients are kept as fractions.
aggregate(reqs) ==
    LET ok(r) == r.success
        failed(r) == ~r.success
        picked == SelectSeq(reqs, in_latencies)
        successful_latencies ==
            sort_unstable([i \in 1..Len(picked) |-> picked[i].latency_ms])
        n == Len(successful_latencies)
        servers == {reqs[i].assigned_server_id : i \in 1..Len(reqs)} \ {None}
        failures == SelectSeq(reqs, failed)
        reasons == {failures[i].failure_reason : i \in 1..Len(failures)}
                     \ {NoReason}
        counted ==
            [DefaultStats EXCEPT
                !.total_requests = Len(reqs),
                !.successful_requests = Len(SelectSeq(reqs, ok)),
                !.failed_requests = Len(SelectSeq(reqs, failed)),
                !.failure_rate = [num |-> Len(SelectSeq(reqs, failed)) * 100,
                                  den |-> Len(reqs)],
                !.server_distribution = [s \in servers |->
                    LET at(r) == r.assigned_server_id = s
                    IN  Len(SelectSeq(reqs, at))],
                !.failure_reasons = [w \in reasons |->
                    LET for(r) == r.failure_reason = w
                    IN  Len(SelectSeq(failures, for))]]
    IN  IF reqs = <<>> THEN DefaultStats
        ELSE IF n = 0 THEN counted
        ELSE [counted EXCEPT
                !.latency_min_ms = successful_latencies[1],
                !.latency_max_ms = successful_latencies[n],
                !.latency_avg_ms = [num |-> sum(successful_latencies), den |-> n],
                !.latency_p50_ms = percentile(successful_latencies, 50),
                !.latency_p95_ms = percentile(successful_latencies, 95),
                !.latency_p99_ms = percentile(successful_latencies, 99)]

Aggregate ==
    /\ stats.state = "none"
    /\ stats' = Ok(aggregate(requests))
    /\ UNCHANGED <<requests, clusterVars, readerVars, codecVars, percentileVars>>

\* ------------------------------------------------------ specifications

\* The servers start together and elect.
ElectionNext ==
    \/ \E s \in Servers : InitialElection(s)
    \/ \E s \in Servers : SpawnedElection(s)
    \/ \E s \in Servers : \E r \in rounds[s] : ElectionTimeout(s, r)
    \/ \E p, q \in Servers : HandleElection(p, q)
    \/ \E p, q \in Servers : HandleAlive(p, q)
    \/ \E p, q \in Servers : HandleCoordinator(p, q)
    \/ \E s \in Servers : \E r \in SysReadings : ProbeChange(s, r)
    \/ Tick

ElectionSpec == Init /\ [][ElectionNext]_vars

\* Three servers under three different loads, server 1 the lightest.
ThreeLoads == [s \in Servers |-> [cpu |-> 2 * (s - 1), mem |-> 100]]

\* The servers start under these loads, each when its own timer expires.
RoundsInit ==
    /\ now = 0
    /\ clock_skew = InStep
    /\ alive = Servers
    /\ sys = ThreeLoads
    /\ active_tasks = [s \in Servers |-> 0]
    /\ current_leader = [s \in Servers |-> None]
    /\ received_alive = [s \in Servers |-> FALSE]
    /\ peer_connections = [s \in Servers |-> Servers \ {s}]
    /\ links = EmptyLinks
    /\ last_heartbeat_times = [s \in Servers |-> EmptyMap]
    /\ peer_loads = [s \in Servers |-> EmptyMap]
    /\ task_history = [s \in Servers |-> EmptyMap]
    /\ rounds = [s \in Servers |-> {}]
    /\ round_count = [s \in Servers |-> 0]
    /\ spawned = [s \in Servers |-> 0]
    /\ startup = Servers
    /\ hb_due = [s \in Servers |-> FALSE]
    /\ mon_due = [s \in Servers |-> FALSE]
    /\ mon_busy = [s \in Servers |-> FALSE]
    /\ crashes = 0
    /\ running = [s \in Servers |-> {}]
    /\ ran = {}
    /\ declared = {}
    /\ classified = [s \in Servers |-> {}]
    /\ ClientIdle
    /\ StepsIdle
    /\ PureIdle
    /\ frames0 = <<>>
    /\ history0 = EmptyMap

RoundsNext ==
    \/ \E s \in Servers : InitialElection(s)
    \/ \E s \in Servers : SpawnedElection(s)
    \/ \E s \in Servers : \E r \in rounds[s] : ElectionTimeout(s, r)
    \/ \E p, q \in Servers : HandleElection(p, q)
    \/ \E p, q \in Servers : HandleAlive(p, q)
    \/ \E p, q \in Servers : HandleCoordinator(p, q)
    \/ Tick

RoundsSpec == RoundsInit /\ [][RoundsNext]_vars

\* A cluster in service: the startup election has ended with every server
\* holding the same leader, the heartbeats of second 1 have been exchanged
\* and the monitors have looked at them.  Election history starts afresh.
Serving ==
    /\ now = 1
    /\ clock_skew = InStep
    /\ alive = Servers
    /\ sys \in [Servers -> SysReadings]
    /\ active_tasks = [s \in Servers |-> 0]
    /\ \E l \in Servers : current_leader = [s \in Servers |-> l]
    /\ received_alive = [s \in Servers |-> FALSE]
    /\ peer_connections = [s \in Servers |-> Servers \ {s}]
    /\ links = EmptyLinks
    /\ last_heartbeat_times = [s \in Servers |-> [p \in Servers \ {s} |-> 1]]
    /\ peer_loads = [s \in Servers |-> [p \in Servers \ {s} |-> get_load(p)]]
    /\ task_history = [s \in Servers |-> EmptyMap]
    /\ rounds = [s \in Servers |-> {}]
    /\ round_count = [s \in Servers |-> 0]
    /\ spawned = [s \in Servers |-> 0]
    /\ startup = {}
    /\ hb_due = [s \in Servers |-> FALSE]
    /\ mon_due = [s \in Servers |-> FALSE]
    /\ mon_busy = [s \in Servers |-> FALSE]
    /\ crashes = 0
    /\ running = [s \in Servers |-> {}]
    /\ ran = {}
    /\ declared = {}
    /\ classified = [s \in Servers |-> {}]
    /\ ClientIdle
    /\ StepsIdle
    /\ PureIdle
    /\ frames0 = <<>>
    /\ history0 = EmptyMap

\* The cluster in service with nothing under way, led by server 1.
ClusterAtRest ==
    /\ now = 1
    /\ clock_skew = InStep
    /\ alive = Servers
    /\ sys = [s \in Servers |-> CHOOSE r \in SysReadings : TRUE]
    /\ active_tasks = [s \in Servers |-> 0]
    /\ current_leader = [s \in Servers |-> 1]
    /\ received_alive = [s \in Servers |-> FALSE]
    /\ peer_connections = [s \in Servers |-> Servers \ {s}]
    /\ links = EmptyLinks
    /\ last_heartbeat_times = [s \in Servers |-> [p \in Servers \ {s} |-> 1]]
    /\ peer_loads = [s \in Servers |-> [p \in Servers \ {s} |-> get_load(p)]]
    /\ task_history = [s \in Servers |-> EmptyMap]
    /\ rounds = [s \in Servers |-> {}]
    /\ round_count = [s \in Servers |-> 0]
    /\ spawned = [s \in Servers |-> 0]
    /\ startup = {}
    /\ hb_due = [s \in Servers |-> FALSE]
    /\ mon_due = [s \in Servers |-> FALSE]
    /\ mon_busy = [s \in Servers |-> FALSE]
    /\ crashes = 0
    /\ running = [s \in Servers |-> {}]
    /\ ran = {}
    /\ declared = {}
    /\ classified = [s \in Servers |-> {}]
    /\ ClientIdle
    /\ StepsIdle
    /\ SweepIdle
    /\ LinksIdle
    /\ frames0 = <<>>
    /\ history0 = EmptyMap

\* One client request served by a cluster in service, within one second.
Next ==
    \/ \E p, q \in Servers : HandleHistoryAdd(p, q)
    \/ \E p, q \in Servers : HandleHistoryRemove(p, q)
    \/ \E s \in Servers : HandleAssignRequest(s, request_num)
    \/ \E s \in Servers : HandleTaskRequest(s, request_num)
    \/ \E s \in Servers : \E ok \in BOOLEAN : FinishTask(s, request_num, ok)
    \/ \E s \in Servers : HandleTaskAck(s, request_num)
    \/ \E s \in Servers : HandleTaskStatusQuery(s, request_num)
    \/ ClientAssign
    \/ ClientAssignResult
    \/ ClientSendTask
    \/ ClientTaskResult
    \/ ClientPoll
    \/ ClientPollResult

Spec == Serving /\ [][Next]_vars

\* A cluster in service where server 1, the leader, has become busier than
\* server 3; server 2 is as busy as the one or as the other.
DetectorInit ==
    /\ Serving
    /\ current_leader[1] = 1
    /\ sys[1].cpu = 2 /\ sys[3].cpu = 0

\* A server dies while the client asks for an assignment: heartbeats, the
\* failure detector and the election it sets off.
DetectorNext ==
    \/ \E s \in Servers : SpawnedElection(s)
    \/ \E s \in Servers : \E r \in rounds[s] : ElectionTimeout(s, r)
    \/ \E p, q \in Servers : HandleElection(p, q)
    \/ \E p, q \in Servers : HandleAlive(p, q)
    \/ \E p, q \in Servers : HandleCoordinator(p, q)
    \/ \E p, q \in Servers : HandleHeartbeat(p, q)
    \/ \E p, q \in Servers : HandleHistoryAdd(p, q)
    \/ \E s \in Servers : SendHeartbeat(s)
    \/ \E s \in Servers : MonitorScan(s)
    \/ \E s \in Servers : Crash(s)
    \/ \E s \in Servers : HandleAssignRequest(s, request_num)
    \/ ClientAssign
    \/ ClientAssignResult
    \/ Tick

DetectorSpec == DetectorInit /\ [][DetectorNext]_vars

\* The client on its own, against servers that answer its frames in any way
\* the protocol allows.  AnswerAssign, AnswerTask and AnswerStatus are what
\* the server connections hand back to broadcast_assignment_request,
\* send_and_receive_encrypted_image and broadcast_status_query: the first
\* answer is from server s and names server a, or (a = None) every connection
\* ends without an answer.
AnswerAssign(s, a) ==
    /\ assign_reqs # {}
    /\ assign_reqs' = {}
    /\ assign_resps' = IF a = None THEN {}
                       ELSE {[from |-> s, key |-> request_num, assigned_server_id |-> a]}
    /\ UNCHANGED <<electionVars, detectorVars, clockVars, task_reqs, task_resps,
                   task_acks, status_reqs, status_resps, clientVars, taskVars,
                   fixedVars, pureVars, stepVars, alive, peer_connections, links,
                   task_history, last_dispatch>>

AnswerTask(s, ok) ==
    /\ [to |-> s, key |-> request_num] \in task_reqs
    /\ task_reqs' = task_reqs \ {[to |-> s, key |-> request_num]}
    /\ task_resps' = task_resps \cup {task_response(s, request_num, encrypt_image(ok))}
    /\ UNCHANGED <<electionVars, detectorVars, clockVars, assign_reqs, assign_resps,
                   task_acks, status_reqs, status_resps, clientVars, taskVars,
                   fixedVars, pureVars, stepVars, alive, peer_connections, links,
                   task_history, last_dispatch>>

AnswerStatus(s, a) ==
    /\ status_reqs # {}
    /\ status_reqs' = {}
    /\ status_resps' = IF a = None THEN {}
                       ELSE {[from |-> s, key |-> request_num, assigned_server_id |-> a]}
    /\ UNCHANGED <<electionVars, detectorVars, clockVars, assign_reqs, assign_resps,
                   task_reqs, task_resps, task_acks, clientVars, taskVars,
                   fixedVars, pureVars, stepVars, alive, peer_connections, links,
                   task_history, last_dispatch>>

\* The servers are up and idle; what they hold does not matter to the client.
ClientInit ==
    /\ Serving
    /\ current_leader[1] = 1
    /\ \A s \in Servers : sys[s].cpu = 0

ClientNext ==
    \/ \E a \in Servers \cup {None} : AnswerAssign(1, a)
    \/ \E s \in Servers : \E ok \in BOOLEAN : AnswerTask(s, ok)
    \/ \E a \in Servers \cup {None} : AnswerStatus(1, a)
    \/ ClientAssign
    \/ ClientAssignResult
    \/ ClientSendTask
    \/ ClientTaskResult
    \/ ClientPoll
    \/ ClientPollResult

ClientSpec == ClientInit /\ [][ClientNext]_vars

\* A cluster in service led by server 1, whose heartbeat is due, while the
\* client's assignment request keeps arriving at it.
LinkInit ==
    /\ now = 1
    /\ clock_skew = InStep
    /\ alive = Servers
    /\ sys = [s \in Servers |-> [cpu |-> 0, mem |-> 100]]
    /\ active_tasks = [s \in Servers |-> 0]
    /\ current_leader = [s \in Servers |-> 1]
    /\ received_alive = [s \in Servers |-> FALSE]
    /\ peer_connections = [s \in Servers |-> Servers \ {s}]
    /\ links = EmptyLinks
    /\ last_heartbeat_times = [s \in Servers |-> [p \in Servers \ {s} |-> 1]]
    /\ peer_loads = [s \in Servers |-> [p \in Servers \ {s} |-> get_load(p)]]
    /\ task_history = [s \in Servers |-> EmptyMap]
    /\ rounds = [s \in Servers |-> {}]
    /\ round_count = [s \in Servers |-> 0]
    /\ spawned = [s \in Servers |-> 0]
    /\ startup = {}
    /\ hb_due = [s \in Servers |-> s = 1]
    /\ mon_due = [s \in Servers |-> FALSE]
    /\ mon_busy = [s \in Servers |-> FALSE]
    /\ crashes = 0
    /\ running = [s \in Servers |-> {}]
    /\ ran = {}
    /\ declared = {}
    /\ classified = [s \in Servers |-> {}]
    /\ ClientIdle
    /\ StepsIdle
    /\ PureIdle
    /\ frames0 = <<>>
    /\ history0 = EmptyMap

\* The leader's sends, one peer at a time, and its peers reading them when
\* they get to it.
LinkNext ==
    \/ RequestArrives(1, request_num)
    \/ \E s \in Servers : BeginDispatch(s, request_num)
    \/ \E s \in Servers : BeginHeartbeat(s)
    \/ \E s \in Servers : \E rec \in sending[s] : SendStep(s, rec)
    \/ \E s \in Servers : \E rec \in sending[s] : EndDispatch(s, rec)
    \/ \E p, q \in Servers : HandleHeartbeat(p, q)
    \/ \E p, q \in Servers : HandleHistoryAdd(p, q)

LinkSpec == LinkInit /\ [][LinkNext]_vars

\* The ledger frames one peer can be sent, and the ledgers it can hold.
LedgerFrames ==
    {[type |-> "HistoryAdd", key |-> k, assigned_server_id |-> a] :
        k \in Keys, a \in {2, 3}}
    \cup {[type |-> "HistoryRemove", key |-> k] : k \in Keys}

FrameSeqs == UNION {[1..n -> LedgerFrames] : n \in 0..MaxFrames}

Ledgers == UNION {[D -> {1}] : D \in SUBSET Keys}

\* Server 2 holds some ledger and has a run of ledger frames from server 1
\* waiting on its connection.
FrameInit ==
    /\ frames0 \in FrameSeqs
    /\ history0 \in Ledgers
    /\ now = 1
    /\ clock_skew = InStep
    /\ alive = Servers
    /\ sys = [s \in Servers |-> [cpu |-> 0, mem |-> 100]]
    /\ active_tasks = [s \in Servers |-> 0]
    /\ current_leader = [s \in Servers |-> 1]
    /\ received_alive = [s \in Servers |-> FALSE]
    /\ peer_connections = [s \in Servers |-> Servers \ {s}]
    /\ links = [EmptyLinks EXCEPT ![1][2] = frames0]
    /\ last_heartbeat_times = [s \in Servers |-> [p \in Servers \ {s} |-> 1]]
    /\ peer_loads = [s \in Servers |-> [p \in Servers \ {s} |-> get_load(p)]]
    /\ task_history = [[s \in Servers |-> EmptyMap] EXCEPT ![2] = history0]
    /\ rounds = [s \in Servers |-> {}]
    /\ round_count = [s \in Servers |-> 0]
    /\ spawned = [s \in Servers |-> 0]
    /\ startup = {}
    /\ hb_due = [s \in Servers |-> FALSE]
    /\ mon_due = [s \in Servers |-> FALSE]
    /\ mon_busy = [s \in Servers |-> FALSE]
    /\ crashes = 0
    /\ running = [s \in Servers |-> {}]
    /\ ran = {}
    /\ declared = {}
    /\ classified = [s \in Servers |-> {}]
    /\ ClientIdle
    /\ StepsIdle
    /\ PureIdle

FrameNext ==
    \/ \E p, q \in Servers : HandleHistoryAdd(p, q)
    \/ \E p, q \in Servers : HandleHistoryRemove(p, q)

FrameSpec == FrameInit /\ [][FrameNext]_vars

\* The Heartbeat frames server 1 can have written: the timestamp is the
\* sender's wall clock (current_timestamp reads SystemTime) at the time the
\* frame was built, the load is what the probe read then.
HeartbeatFrames ==
    {[type |-> "Heartbeat", from_id |-> 1, timestamp |-> ts, load |-> l] :
        ts \in 1..(MaxTime - 1), l \in {0, 20}}

HeartbeatSeqs == UNION {[1..n -> HeartbeatFrames] : n \in 0..MaxBeats}

\* A cluster in service led by server 2.  Server 1 has been held up: server 2
\* saw it last at some earlier second, and a run of its Heartbeat frames
\* reaches server 2 as the monitor of server 2 is due.
HeartbeatInit ==
    /\ frames0 \in HeartbeatSeqs
    /\ history0 = EmptyMap
    /\ now = MaxTime - 1
    /\ clock_skew = InStep
    /\ alive = Servers
    /\ sys = [s \in Servers |-> [cpu |-> 0, mem |-> 100]]
    /\ active_tasks = [s \in Servers |-> 0]
    /\ current_leader = [s \in Servers |-> 2]
    /\ received_alive = [s \in Servers |-> FALSE]
    /\ peer_connections = [s \in Servers |-> Servers \ {s}]
    /\ links = [EmptyLinks EXCEPT ![1][2] = frames0]
    /\ \E seen \in 1..now :
          last_heartbeat_times = [s \in Servers |-> [p \in Servers \ {s} |->
              IF s = 2 /\ p = 1 THEN seen ELSE now]]
    /\ peer_loads = [s \in Servers |-> [p \in Servers \ {s} |-> get_load(p)]]
    /\ task_history = [s \in Servers |-> EmptyMap]
    /\ rounds = [s \in Servers |-> {}]
    /\ round_count = [s \in Servers |-> 0]
    /\ spawned = [s \in Servers |-> 0]
    /\ startup = {}
    /\ hb_due = [s \in Servers |-> FALSE]
    /\ mon_due = [s \in Servers |-> s = 2]
    /\ mon_busy = [s \in Servers |-> FALSE]
    /\ crashes = 0
    /\ running = [s \in Servers |-> {}]
    /\ ran = {}
    /\ declared = {}
    /\ classified = [s \in Servers |-> {}]
    /\ ClientIdle
    /\ StepsIdle
    /\ PureIdle

\* Heartbeats and failure-detector scans, lock by lock.
HeartbeatNext ==
    \/ \E p, q \in Servers : HeartbeatWriteTime(p, q)
    \/ \E p, q \in Servers : HeartbeatWriteLoad(p, q)
    \/ \E s \in Servers : ScanCollect(s)
    \/ \E s, p \in Servers : ScanRemoveLoad(s, p)
    \/ \E s \in Servers : ScanRemoveSeen(s)
    \/ \E s \in Servers : SendHeartbeat(s)
    \/ Tick

HeartbeatSpec == HeartbeatInit /\ [][HeartbeatNext]_vars

\* ------------------------------------------------------------- claims

AssignRequestRead(s) ==
    /\ [to |-> s, key |-> request_num] \in assign_reqs
    /\ [to |-> s, key |-> request_num] \notin assign_reqs'
    /\ s \in alive'

C2_AgreementWhenQuiescent ==
    ElectionQuiescent =>
        \E l \in alive : \A s \in alive : current_leader[s] = l

\* C3: of the servers that run an election with equal load, only the one
\* with the lowest id declares itself leader.
C3_LowestIdDeclares ==
    \A d \in declared : \A r \in ran :
        (r.priority = d.priority /\ r.start = d.start) => d.id <= r.id

Candidates(d) == DOMAIN d.loads \cup {d.leader}

LoadOf(d, c) == IF c = d.leader THEN d.my_load ELSE d.loads[c]

Tied(d) == {c \in Candidates(d) : LoadOf(d, c) = LoadOf(d, d.best)}

HasMinimumLoad(d) == \A c \in Candidates(d) : LoadOf(d, d.best) <= LoadOf(d, c)

C5_ReturnsOnSuccess == succeeded => cpc = "returned_some"

\* C6: an assignee removes the ledger entry and broadcasts HistoryRemove only
\* after it has read the client's TaskAck for the request.
C6_RemoveOnlyAfterAck == \A x \in removes_sent : x \in acks_seen

\* C7: a server that reads a TaskStatusQuery for a key its ledger holds
\* writes a TaskStatusResponse.
C7_StatusAnswered ==
    [][\A s \in Servers :
         ( /\ [to |-> s, key |-> request_num] \in status_reqs
           /\ [to |-> s, key |-> request_num] \notin status_reqs'
           /\ s \in alive'
           /\ request_num \in DOMAIN task_history[s] )
         => \E r \in status_resps' : r.from = s]_vars

\* The ledger frames server 2 has read so far.
Applied == SubSeq(frames0, 1, Len(frames0) - Len(links[1][2]))

LastFor(seq, k) ==
    LET idx == {i \in 1..Len(seq) : seq[i].key = k}
    IN  IF idx = {} THEN 0 ELSE CHOOSE i \in idx : \A j \in idx : j <= i

\* C8: after any run of HistoryAdd and HistoryRemove frames, repeats
\* included, a key's entry is what the last frame for that key says (present
\* with that Add's assignee, or absent), and a key no frame names is as it was.
C8_LastFrameWins ==
    \A k \in Keys :
        LET i == LastFor(Applied, k)
            h == task_history[2]
        IN  IF i = 0
            THEN /\ k \in DOMAIN h <=> k \in DOMAIN history0
                 /\ k \in DOMAIN h => h[k] = history0[k]
            ELSE IF Applied[i].type = "HistoryAdd"
                 THEN k \in DOMAIN h /\ h[k] = Applied[i].assigned_server_id
                 ELSE k \notin DOMAIN h

C8_Witness ==
    /\ links[1][2] = <<>>
    /\ frames0 = << [type |-> "HistoryAdd", key |-> 1, assigned_server_id |-> 2],
                    [type |-> "HistoryAdd", key |-> 1, assigned_server_id |-> 3],
                    [type |-> "HistoryRemove", key |-> 1],
                    [type |-> "HistoryAdd", key |-> 1, assigned_server_id |-> 2] >>
    /\ history0 = [k \in Keys |-> 1]
    /\ task_history[2] = [k \in Keys |-> IF k = 1 THEN 2 ELSE 1]

\* C9: once every live server has classified a dead server as failed, no
\* live server's ledger holds an entry assigned to it.
C9_SweepComplete ==
    \A p \in Servers \ alive :
        (\A s \in alive : p \in classified[s]) =>
            \A s \in alive : \A k \in DOMAIN task_history[s] : task_history[s][k] # p

\* Nothing is in flight and no task is running.
Settled ==
    /\ \A p, q \in Servers : links[p][q] = <<>>
    /\ assign_reqs = {} /\ task_reqs = {} /\ task_acks = {} /\ status_reqs = {}
    /\ \A s \in Servers : running[s] = {}

\* C10: with every ledger frame delivered and no request in progress, all
\* live servers hold the same ledger.
C10_LedgersAgree ==
    Settled => \A s, t \in alive : task_history[s] = task_history[t]

\* C11: at every server, whenever neither a Heartbeat handler nor the monitor
\* is part-way through its two map updates, peer_loads and
\* last_heartbeat_times have the same keys, however Heartbeat receipt and
\* the monitor's scan interleave.
C11_SameKeySets ==
    \A s \in alive :
        (hb_pc[s] = {} /\ mon_pc[s] = IdleScan) =>
            DOMAIN peer_loads[s] = DOMAIN last_heartbeat_times[s]

\* C12: a Heartbeat whose timestamp is not greater than the one recorded for
\* its sender leaves that sender's last-seen time and load as they were.
C12_StaleHeartbeatIgnored ==
    [][\A p, q \in Servers :
          (/\ Incoming(p, q, "Heartbeat")
           /\ p \in DOMAIN last_heartbeat_times[q] \cap DOMAIN peer_loads[q]
           /\ Head(links[p][q]).timestamp <= last_heartbeat_times[q][p])
          => (/\ p \in DOMAIN last_heartbeat_times'[q] \cap DOMAIN peer_loads'[q]
                 => /\ last_heartbeat_times'[q][p] = last_heartbeat_times[q][p]
                    /\ peer_loads'[q][p] = peer_loads[q][p])]_vars

\* The leader, server 1, has died and the survivors are done reacting: each
\* has classified it as failed, no election round is pending or in flight,
\* and none was cut short by the bound on rounds.
FailedOver ==
    /\ crashes = 1
    /\ 1 \notin alive
    /\ ElectionQuiescent
    /\ \A s \in alive : /\ ~mon_busy[s]
                        /\ 1 \in classified[s]
                        /\ round_count[s] < MaxRounds

\* C13: once the survivors of a leader crash are done reacting, none of them
\* still holds the dead leader's id and all of them hold the same live server
\* as leader.
C13_FailoverAgrees ==
    FailedOver =>
        /\ \A s \in alive : current_leader[s] # 1
        /\ \E l \in alive : \A s \in alive : current_leader[s] = l

\* C14: after a single server failure has been dealt with, a client that is
\* asking for an assignment has a live server to answer it: some survivor
\* holds itself as leader, so the request can go on to a live assignee.
C14_AssignedAfterFailover ==
    (FailedOver /\ cpc \in {"assign", "assign_wait"})
    => \E s \in alive : am_i_leader(s)

\* C15: a TaskResponse with success = false ends the request as failed: the
\* client neither goes to polling with TaskStatusQuery nor resubmits.
C15_FailureIsFinal ==
    [][(/\ cpc = "task_wait"
        /\ cpc' # cpc
        /\ \E r \in task_resps : r.from = assigned_address /\ ~r.success
        /\ \A r \in task_resps : r.from = assigned_address => ~r.success)
       => cpc' = "returned_none"]_vars

\* The status round that ends here is the one that makes TaskLost: the last
\* of MAX_CONSECUTIVE_FAILURES rounds in a row without a response.
TaskLostNow == cpc = "poll_wait" /\ silent_run' = MAX_CONSECUTIVE_FAILURES

\* C16: the resubmission counter goes up one at a time and never past
\* MAX_RESUBMISSION_ATTEMPTS; TaskLost below the limit resubmits, TaskLost at
\* the limit ends the request as failed.
C16_ResubmitAtMostThrice ==
    [][/\ resubmission_attempt' <= MAX_RESUBMISSION_ATTEMPTS
       /\ resubmission_attempt' \in {resubmission_attempt, resubmission_attempt + 1}
       /\ (resubmission_attempt' # resubmission_attempt) => TaskLostNow
       /\ (TaskLostNow /\ resubmission_attempt < MAX_RESUBMISSION_ATTEMPTS)
             => (cpc' = "assign" /\ resubmission_attempt' = resubmission_attempt + 1)
       /\ (TaskLostNow /\ resubmission_attempt = MAX_RESUBMISSION_ATTEMPTS)
             => cpc' = "returned_none"]_vars

C16_Witness ==
    cpc = "returned_none" /\ resubmission_attempt = MAX_RESUBMISSION_ATTEMPTS

C18_SendNeverWaits ==
    \A s \in alive : \A rec \in sending[s] :
        rec.todo # <<>> => ENABLED SendStep(s, rec)

\* C19: a task that is waiting at a suspension point - here, in a send that
\* is still to complete - holds no lock guard.
C19_NoLockAcrossAwait ==
    \A s \in alive : \A rec \in sending[s] :
        rec.todo # <<>> => rec.locks = {}

\* C20: when the leader writes a TaskAssignmentResponse, its ledger holds the
\* entry for that assignment and the HistoryAdd has been handed to the link of
\* every connected peer.
C20_LedgerBeforeResponse ==
    [][\A s \in Servers : \A r \in assign_resps' \ assign_resps :
          r.from = s =>
            /\ r.key \in DOMAIN task_history[s]
            /\ task_history[s][r.key] = r.assigned_server_id
            /\ \E rec \in sending[s] :
                  /\ rec.task = "dispatch" /\ rec.key = r.key
                  /\ rec.done = peer_connections[s]
                  /\ rec.msg = [type |-> "HistoryAdd", key |-> r.key,
                                assigned_server_id |-> r.assigned_server_id]]_vars

\* A response has been written while the peers have not read the frames yet.
C20_Witness ==
    \E r \in assign_resps :
        /\ r.from = 1
        /\ \A q \in peer_connections[1] : \E i \in 1..Len(links[1][q]) :
              links[1][q][i] = [type |-> "HistoryAdd", key |-> r.key,
                                assigned_server_id |-> r.assigned_server_id]

\* ----------------------------------------- one accepted connection

\* A connection just accepted, with any stream of frames about to arrive.
ReaderInit ==
    /\ ClusterAtRest
    /\ stream \in FrameStreams
    /\ conn_open = TRUE
    /\ delivered = <<>>
    /\ body_read = 0
    /\ CodecIdle
    /\ PercentileIdle
    /\ MetricsIdle
    /\ ProbeIdle

ReaderNext == handle_connection

ReaderSpec == ReaderInit /\ [][ReaderNext]_vars

Colours == {<<0, 0, 0>>, <<255, 255, 255>>, <<254, 255, 128>>, <<1, 2, 3>>}
Widths == {4, 5, 6, 7}
Carriers == {[width |-> w, height |-> h, pixels |-> [i \in 1..(w * h) |-> c]] :
                w \in Widths, h \in 1..MaxHeight, c \in Colours}
Texts == UNION {[1..n -> {97, 98}] : n \in 0..MaxText}

CodecInit ==
    /\ ClusterAtRest
    /\ ReaderIdle
    /\ PercentileIdle
    /\ MetricsIdle
    /\ carrier \in Carriers
    /\ text \in Texts
    /\ stego = NoResult
    /\ extracted = NoResult
    /\ ProbeIdle

CodecNext == Embed \/ Extract

CodecSpec == CodecInit /\ [][CodecNext]_vars

\* C22: for every carrier and text that pass the capacity check, extracting
\* from the embedded image returns exactly the bytes of the text.
C22_RoundTrip ==
    extracted # NoResult => extracted = Ok(text)

\* ------------------------------------------------ percentile of latencies

\* The lists 1..n and 100, 200, .., 100 * n, and the percentiles the client
\* reports together with the two ends.
SortedLists == UNION {{[i \in 1..n |-> i], [i \in 1..n |-> 100 * i]} :
                        n \in 0..MaxData}
Percentiles == {0, 50, 95, 99, 100}

PercentileInit ==
    /\ ClusterAtRest
    /\ ReaderIdle
    /\ CodecIdle
    /\ MetricsIdle
    /\ sorted_data \in SortedLists
    /\ pct \in Percentiles
    /\ pct_result = NoResult
    /\ ProbeIdle

PercentileNext == Percentile

PercentileSpec == PercentileInit /\ [][PercentileNext]_vars

\* C23: percentile returns the element at p / 100 * (n - 1) rounded to the
\* nearest index, an exact half going to the lower index, and 0 for the
\* empty list; for 1..10 that is 5 at p = 50, 10 at p = 95 and 1 at p = 0.
C23_HalfGoesDown ==
    pct_result.state = "ok" =>
        IF sorted_data = <<>> THEN pct_result = Ok(0)
        ELSE pct_result =
               Ok(sorted_data[((2 * pct * (Len(sorted_data) - 1) + 99) \div 200) + 1])

\* -------------------------------------------------- aggregated statistics

Latencies == {100, 150, 200}
Outcomes == {[success |-> TRUE, failure_reason |-> NoReason]} \cup
            {[success |-> FALSE, failure_reason |-> w] : w \in {NoReason, "timeout"}}

MetricsInit ==
    /\ ClusterAtRest
    /\ ReaderIdle
    /\ CodecIdle
    /\ PercentileIdle
    /\ MetricsIdle
    /\ ProbeIdle

MetricsNext ==
    \/ \E l \in Latencies, o \in Outcomes, a \in {None, 1, 2} :
            record_request(l, o.success, o.failure_reason, a)
    \/ Aggregate

MetricsSpec == MetricsInit /\ [][MetricsNext]_vars

\* The records of a kind: their positions in the list.
Recorded(successful) ==
    {i \in 1..Len(requests) : requests[i].success = successful}

\* C24: the total is the number of records and the sum of the successful and
\* the failed counts; the smallest and largest latency are taken over the
\* successful records only; the count of a server covers every record
\* assigned to it, successful or failed.
C24_AggregateCounts ==
    stats.state = "ok" =>
        LET s == stats.value
            lat == {requests[i].latency_ms : i \in Recorded(TRUE)}
            assigned(a) == {i \in 1..Len(requests) :
                              requests[i].assigned_server_id = a}
        IN  /\ s.total_requests = Len(requests)
            /\ s.total_requests = s.successful_requests + s.failed_requests
            /\ s.successful_requests = Cardinality(Recorded(TRUE))
            /\ s.failed_requests = Cardinality(Recorded(FALSE))
            /\ lat # {} =>
                  /\ s.latency_min_ms \in lat
                  /\ s.latency_max_ms \in lat
                  /\ \A l \in lat : s.latency_min_ms <= l /\ l <= s.latency_max_ms
            /\ \A a \in {1, 2} :
                  IF assigned(a) = {} THEN a \notin DOMAIN s.server_distribution
                  ELSE /\ a \in DOMAIN s.server_distribution
                       /\ s.server_distribution[a] = Cardinality(assigned(a))

\* Statistics of a run in which a failed request was faster than every
\* successful one and went to a server that also served a successful one.
C24_Witness ==
    /\ stats.state = "ok"
    /\ \E i \in Recorded(FALSE) : \E j \in Recorded(TRUE) :
          /\ \A k \in Recorded(TRUE) :
                requests[i].latency_ms < requests[k].latency_ms
          /\ requests[i].assigned_server_id = requests[j].assigned_server_id
          /\ requests[i].assigned_server_id # None
          /\ stats.value.server_distribution[requests[i].assigned_server_id] >= 2

\* C25: a round that ends declares its peer leader exactly when no Alive was
\* read between its start and its timeout, also when other rounds of the
\* same peer began in between: a round that heard an Alive declares nothing,
\* and a round that heard none makes its peer the leader.
C25_RoundKeepsItsAlive ==
    [][\A s \in Servers : \A r \in rounds[s] :
        (s \in alive' /\ rounds'[s] = rounds[s] \ {r}) =>
            IF r.heard
            THEN declared' = declared /\ current_leader'[s] = current_leader[s]
            ELSE current_leader'[s] = s]_vars

\* C26: a peer that reads Election{from = P, priority = L_P} sends Alive to
\* P and sets off a round of its own exactly when the load it samples is
\* strictly less than L_P; otherwise it sends nothing and sets off nothing;
\* either way its leader slot stays as it was.
C26_AnswersOnlyIfLighter ==
    [][\A p, q \in Servers :
        (Incoming(p, q, "Election") /\ links'[p][q] = Tail(links[p][q])) =>
            LET m == Head(links[p][q]) IN
            /\ current_leader'[q] = current_leader[q]
            /\ IF get_load(q) < m.priority
               THEN /\ links'[q][m.from_id] = Append(links[q][m.from_id],
                                        [type |-> "Alive", from_id |-> q])
                    /\ spawned'[q] = spawned[q] + 1
               ELSE /\ links'[q] = links[q]
                    /\ spawned'[q] = spawned[q]
                    /\ rounds'[q] = rounds[q]]_vars

\* A lighter peer has answered an Election with Alive and owes a round.
C26_Witness ==
    \E p, q \in Servers :
        /\ spawned[q] > 0
        /\ get_load(q) < get_load(p)
        /\ links[q][p] # <<>>
        /\ links[q][p][Len(links[q][p])] = [type |-> "Alive", from_id |-> q]

\* A ledger frame for the key is still on its way to q.
LedgerFrameInFlight(q, k) ==
    \E p \in Servers : \E i \in 1..Len(links[p][q]) :
        /\ links[p][q][i].type \in {"HistoryAdd", "HistoryRemove"}
        /\ links[p][q][i].key = k

\* C27: once a request is completed and every ledger frame for its key has
\* been delivered, no peer holds an entry for the key, in whichever order the
\* leader's HistoryAdd and the assignee's HistoryRemove reached it.
C27_OrderDoesNotMatter ==
    \A q \in alive :
        (/\ succeeded
         /\ \E s \in Servers \ {q} : <<s, request_num>> \in removes_sent
         /\ <<q, request_num>> \notin removes_sent
         /\ \A s \in Servers : running[s] = {}
         /\ ~LedgerFrameInFlight(q, request_num))
        => request_num \notin DOMAIN task_history[q]

\* ------------------------------------- the detector and arriving frames

\* The frames the leader can have written to server 2: ledger frames and the
\* announcement of an election it has won.
SweepFrames ==
    {[type |-> "HistoryAdd", key |-> k, assigned_server_id |-> a] :
        k \in Keys, a \in {2, 3}}
    \cup {[type |-> "HistoryRemove", key |-> k] : k \in Keys}
    \cup {[type |-> "Coordinator", leader_id |-> 1]}

SweepSeqs == UNION {[1..n -> SweepFrames] : n \in 0..MaxSweepFrames}

SweepLedgers == UNION {[D -> {2, 3}] : D \in SUBSET Keys}

\* Server 3 has been killed and server 2 has not heard from it for longer
\* than the failure timeout.  The monitor of server 2 is due while frames
\* from server 1 wait on its connection.  Server 2 holds server 3 or server 1
\* to be the leader.
SweepInit ==
    /\ frames0 \in SweepSeqs
    /\ history0 \in SweepLedgers
    /\ now = MaxTime - 1
    /\ clock_skew = InStep
    /\ alive = Servers \ {3}
    /\ sys = [s \in Servers |-> [cpu |-> 0, mem |-> 100]]
    /\ active_tasks = [s \in Servers |-> 0]
    /\ \E l \in {1, 3} : current_leader = [s \in Servers |-> IF s = 2 THEN l ELSE 1]
    /\ received_alive = [s \in Servers |-> FALSE]
    /\ peer_connections = [s \in Servers |-> Servers \ {s}]
    /\ links = [EmptyLinks EXCEPT ![1][2] = frames0]
    /\ last_heartbeat_times = [s \in Servers |-> [p \in Servers \ {s} |->
           IF p = 3 THEN now - failure_timeout_secs - 1 ELSE now]]
    /\ peer_loads = [s \in Servers |-> [p \in Servers \ {s} |-> get_load(p)]]
    /\ task_history = [[s \in Servers |-> EmptyMap] EXCEPT ![2] = history0]
    /\ rounds = [s \in Servers |-> {}]
    /\ round_count = [s \in Servers |-> 0]
    /\ spawned = [s \in Servers |-> 0]
    /\ startup = {}
    /\ hb_due = [s \in Servers |-> FALSE]
    /\ mon_due = [s \in Servers |-> s = 2]
    /\ mon_busy = [s \in Servers |-> FALSE]
    /\ crashes = 1
    /\ running = [s \in Servers |-> {}]
    /\ ran = {}
    /\ declared = {}
    /\ classified = [s \in Servers |-> {}]
    /\ ClientIdle
    /\ StepsIdle
    /\ PureIdle

\* The failure detector lock by lock, and the frames read meanwhile.
SweepNext ==
    \/ \E s \in Servers : ScanCollect(s)
    \/ \E s, p \in Servers : ScanRemoveLoad(s, p)
    \/ \E s \in Servers : SweepCollect(s)
    \/ \E s \in Servers : SweepRemove(s)
    \/ \E p, q \in Servers : HandleHistoryAdd(p, q)
    \/ \E p, q \in Servers : HandleHistoryRemove(p, q)
    \/ \E p, q \in Servers : HandleCoordinator(p, q)

SweepSpec == SweepInit /\ [][SweepNext]_vars

\* The monitor of s finishes with the failed peer its loop is at.
SweepEnds(s) ==
    orphaned_tasks[s].peer # None /\ orphaned_tasks'[s].peer = None

\* C28: the sweep for a failed peer removes only entries whose assignee is
\* that peer at the moment they are removed: a key that a HistoryAdd read
\* during the sweep has given to another server stays.
C28_SweepIsAtomic ==
    [][\A s \in Servers : SweepEnds(s) =>
        \A k \in DOMAIN task_history[s] \ DOMAIN task_history'[s] :
            task_history[s][k] = orphaned_tasks[s].peer]_vars

\* C29: the detector clears the leader slot for a failed peer only if the
\* slot holds that peer at the moment of clearing: a Coordinator naming
\* another server that was read before is not overwritten, and a failed peer
\* that is not the leader causes neither a change of the slot nor an election.
C29_ClearsOnlyTheFailedLeader ==
    [][\A s \in Servers :
        (SweepEnds(s) /\ current_leader[s] # orphaned_tasks[s].peer) =>
            /\ current_leader'[s] = current_leader[s]
            /\ rounds'[s] = rounds[s]]_vars

\* ------------------------------------------- clocks that do not agree

\* The Heartbeat frames of a server 1 whose wall clock is up to a second
\* ahead of server 2's.
SkewedFrames ==
    {[type |-> "Heartbeat", from_id |-> 1, timestamp |-> ts, load |-> l] :
        ts \in 1..MaxTime, l \in {0, 20}}

SkewedSeqs == UNION {[1..n -> SkewedFrames] : n \in 0..MaxBeats}

\* A cluster in service led by server 2, as in HeartbeatInit, at some second.
SkewInit ==
    /\ frames0 \in SkewedSeqs
    /\ history0 = EmptyMap
    /\ now \in 1..(MaxTime - 1)
    /\ clock_skew = InStep
    /\ alive = Servers
    /\ sys = [s \in Servers |-> [cpu |-> 0, mem |-> 100]]
    /\ active_tasks = [s \in Servers |-> 0]
    /\ current_leader = [s \in Servers |-> 2]
    /\ received_alive = [s \in Servers |-> FALSE]
    /\ peer_connections = [s \in Servers |-> Servers \ {s}]
    /\ links = [EmptyLinks EXCEPT ![1][2] = frames0]
    /\ last_heartbeat_times = [s \in Servers |-> [p \in Servers \ {s} |-> now]]
    /\ peer_loads = [s \in Servers |-> [p \in Servers \ {s} |-> get_load(p)]]
    /\ task_history = [s \in Servers |-> EmptyMap]
    /\ rounds = [s \in Servers |-> {}]
    /\ round_count = [s \in Servers |-> 0]
    /\ spawned = [s \in Servers |-> 0]
    /\ startup = {}
    /\ hb_due = [s \in Servers |-> FALSE]
    /\ mon_due = [s \in Servers |-> s = 2]
    /\ mon_busy = [s \in Servers |-> FALSE]
    /\ crashes = 0
    /\ running = [s \in Servers |-> {}]
    /\ ran = {}
    /\ declared = {}
    /\ classified = [s \in Servers |-> {}]
    /\ ClientIdle
    /\ StepsIdle
    /\ PureIdle

\* Heartbeats read and failure-detector scans, in either kind of build.
SkewNext ==
    \/ \E p, q \in Servers : HandleHeartbeat(p, q)
    \/ \E s \in Servers : ScanCollect(s)
    \/ \E s \in Servers : ScanPanics(s)
    \/ \E s, p \in Servers : ScanRemoveLoad(s, p)
    \/ \E s \in Servers : ScanRemoveSeen(s)
    \/ Tick

SkewSpec == SkewInit /\ [][SkewNext]_vars

\* C30: a scan classifies a peer failed exactly when now - LastSeen exceeds
\* the failure timeout as whole numbers: a timestamp later than the local
\* clock neither makes the peer failed nor ends the monitor task.
C30_NoWrapAround ==
    [][\A s \in Servers :
        (s \in alive /\ mon_pc[s] = IdleScan /\ mon_due[s] /\ ~mon_due'[s]) =>
            /\ s \notin mon_panicked'
            /\ mon_pc'[s].todo =
                  {p \in DOMAIN last_heartbeat_times[s] :
                      now - last_heartbeat_times[s][p] > failure_timeout_secs}]_vars

\* ------------------------------------------------ the assignment loop

\* C31: while no assignment round brings a TaskAssignmentResponse the client
\* goes back to broadcasting TaskAssignmentRequest to every address, never
\* returns None from there and leaves the resubmission counter alone; the
\* round that brings one hands that response's assignee to execute_task.
C31_AssignLoopNeverGivesUp ==
    [][/\ cpc \in {"assign", "assign_wait"}
          => /\ resubmission_attempt' = resubmission_attempt
             /\ cpc' \in {"assign", "assign_wait", "task"}
       /\ (cpc = "assign" /\ cpc' # cpc)
          => /\ cpc' = "assign_wait"
             /\ assign_reqs' = {[to |-> s, key |-> request_num] : s \in alive}
       /\ (cpc = "assign_wait" /\ cpc' # cpc)
          => IF assign_resps = {}
             THEN cpc' = "assign" /\ assigned_address' = assigned_address
             ELSE /\ cpc' = "task"
                  /\ \E r \in assign_resps :
                        assigned_address' = r.assigned_server_id]_vars

\* The second round of the first stay in the assignment loop brought the
\* response, from leader 1 and naming server 2; the first round brought none.
C31_Witness ==
    /\ cpc = "task" /\ assign_rounds = 2
    /\ resubmission_attempt = 0 /\ ~succeeded /\ failed_address = None
    /\ assigned_address = 2
    /\ \E r \in assign_resps : r.from = 1 /\ r.assigned_server_id = 2

\* ------------------------------------------- polling for reassignment

\* Rounds a stay in wait_for_reassignment can still take: every round that
\* stays there brings this down.
PollRoundsLeft ==
    (MAX_SAME_SERVER_POLLS - same_server_count) * MAX_CONSECUTIVE_FAILURES
    + (MAX_CONSECUTIVE_FAILURES - consecutive_failures)

\* C32: a status round answered with another address than the failed one
\* goes to execute_task with that address at once; one answered with the
\* failed address goes there with the same address exactly when it is the
\* tenth such answer of the stay, a silent round leaving that count as it
\* is; every round that stays in polling brings the end of the stay nearer.
C32_PollLeavesForTask ==
    [][(cpc = "poll_wait" /\ cpc' # cpc)
       => /\ IF status_resps = {}
             THEN /\ same_server_count' = same_server_count
                  /\ cpc' \in {"poll", "assign", "returned_none"}
             ELSE LET address == FirstReply(status_resps).assigned_server_id
                  IN  IF address # failed_address
                      THEN cpc' = "task" /\ assigned_address' = address
                      ELSE /\ same_server_count' = same_server_count + 1
                           /\ IF same_server_count' = MAX_SAME_SERVER_POLLS
                              THEN /\ cpc' = "task"
                                   /\ assigned_address' = failed_address
                              ELSE /\ cpc' = "poll"
                                   /\ same_server_count' < MAX_SAME_SERVER_POLLS
          /\ cpc' = "poll" => /\ PollRoundsLeft' < PollRoundsLeft
                              /\ PollRoundsLeft' > 0]_vars

\* The tenth answer naming the failed address has sent the client back to
\* execute_task with that address.
C32_Witness ==
    /\ cpc = "task" /\ same_server_count = MAX_SAME_SERVER_POLLS
    /\ assigned_address = failed_address /\ failed_address # None

\* ------------------------------------------------------ task processing

\* The servers TaskRequests are sent to.
TaskServers == {2}

\* The cluster in service, led by server 1, every request of Keys in every
\* ledger; clients send TaskRequests, and may close their connections.
TaskInit ==
    /\ now = 1
    /\ clock_skew = InStep
    /\ alive = Servers
    /\ sys = [s \in Servers |-> [cpu |-> 0, mem |-> 100]]
    /\ active_tasks = [s \in Servers |-> 0]
    /\ current_leader = [s \in Servers |-> 1]
    /\ received_alive = [s \in Servers |-> FALSE]
    /\ peer_connections = [s \in Servers |-> Servers \ {s}]
    /\ links = EmptyLinks
    /\ last_heartbeat_times = [s \in Servers |-> [p \in Servers \ {s} |-> 1]]
    /\ peer_loads = [s \in Servers |-> [p \in Servers \ {s} |-> get_load(p)]]
    /\ history0 \in [Keys -> TaskServers]
    /\ task_history = [s \in Servers |-> history0]
    /\ rounds = [s \in Servers |-> {}]
    /\ round_count = [s \in Servers |-> 0]
    /\ spawned = [s \in Servers |-> 0]
    /\ startup = {}
    /\ hb_due = [s \in Servers |-> FALSE]
    /\ mon_due = [s \in Servers |-> FALSE]
    /\ mon_busy = [s \in Servers |-> FALSE]
    /\ crashes = 0
    /\ running = [s \in Servers |-> {}]
    /\ ran = {}
    /\ declared = {}
    /\ classified = [s \in Servers |-> {}]
    /\ ClientIdle
    /\ StepsIdle
    /\ PureIdle
    /\ frames0 = <<>>

TaskNext ==
    \/ \E s \in TaskServers : \E k \in Keys : TaskRequestArrives(s, k)
    \/ \E s \in TaskServers : \E k \in Keys : HandleTaskRequest(s, k)
    \/ \E s \in TaskServers : \E k \in Keys : ClientCloses(s, k)
    \/ \E s \in TaskServers : \E k \in Keys : \E ok \in BOOLEAN : FinishTask(s, k, ok)
    \/ \E p, q \in Servers : HandleHistoryRemove(p, q)

TaskSpec == TaskInit /\ [][TaskNext]_vars

\* C33: at every server active_tasks is the number of TaskRequests taken up
\* whose processing has not ended: one more when a TaskRequest is taken up,
\* one less when its processing ends, whatever the encoder returned and
\* whether or not the client still holds the connection; never below zero,
\* and zero when nothing is being processed.
C33_CountsRunningTasks ==
    [][\A s \in Servers :
          /\ active_tasks'[s] = Cardinality(running'[s])
          /\ active_tasks'[s] >= 0
          /\ (running'[s] = {}) => active_tasks'[s] = 0
          /\ \A k \in Keys :
                /\ (k \notin running[s] /\ k \in running'[s])
                      => active_tasks'[s] = active_tasks[s] + 1
                /\ (k \in running[s] /\ k \notin running'[s])
                      => active_tasks'[s] = active_tasks[s] - 1
          /\ (running'[s] = running[s]) => active_tasks'[s] = active_tasks[s]]_vars

\* Request 1 has ended at server 2 after its client closed the connection,
\* while request 2 is still being processed there.
C33_Witness ==
    /\ <<2, 1>> \in client_gone /\ <<2, 1>> \in removes_sent
    /\ running[2] = {2} /\ active_tasks[2] = 1

\* C35: when the encoder fails, the TaskResponse written on the connection
\* has success false, the encoder's error text and no image bytes, and the
\* server goes on: no server's current_leader, peer_loads or
\* last_heartbeat_times changes, nor any ledger entry of another request.
C35_FailureIsReported ==
    [][\A s \in Servers : \A k \in Keys :
          (k \in running[s] /\ k \notin running'[s])
          => LET replies == task_resps' \ task_resps
             IN  /\ <<s, k>> \notin client_gone
                      => \E r \in replies : r.from = s /\ r.key = k
                 /\ \A r \in replies :
                      /\ r.from = s /\ r.key = k
                      /\ ~r.success
                         => /\ r.error_message = encrypt_image(FALSE).error
                            /\ r.error_message # ""
                            /\ r.encrypted_image_data = <<>>
                            /\ s \in alive'
                            /\ current_leader' = current_leader
                            /\ peer_loads' = peer_loads
                            /\ last_heartbeat_times' = last_heartbeat_times
                            /\ \A q \in Servers : \A k2 \in Keys \ {k} :
                                  /\ (k2 \in DOMAIN task_history'[q])
                                        = (k2 \in DOMAIN task_history[q])
                                  /\ k2 \in DOMAIN task_history[q]
                                        => task_history'[q][k2] = task_history[q][k2]]_vars

\* Server 2 has answered request 1 with the encoder's failure and holds the
\* ledger entry of request 2, which it goes on to process.
C35_Witness ==
    /\ \E r \in task_resps : r.from = 2 /\ r.key = 1 /\ ~r.success
    /\ 2 \in DOMAIN task_history[2] /\ 1 \notin DOMAIN task_history[2]
    /\ 2 \in running[2] /\ 2 \in alive

\* ------------------------------------------------- peer link failures

\* The leader's sends to its peers, and its link tasks writing the frames to
\* connections that can break.
PeerLinkNext ==
    \/ RequestArrives(1, request_num)
    \/ BeginDispatch(1, request_num)
    \/ BeginHeartbeat(1)
    \/ \E rec \in sending[1] : SendStep(1, rec)
    \/ \E rec \in sending[1] : EndDispatch(1, rec)
    \/ \E q \in Servers \ {1} : LinkRecv(1, q)
    \/ \E q \in Servers \ {1} : LinkWriteOk(1, q)
    \/ LinkWriteErr(1, 2)
    \/ LinkUnregister(1, 2)
    \/ LinkReconnect(1, 2)

\* Every task of the runtime that can run does run; a write that does not
\* fail ends.  Nothing is asked of the network.
PeerLinkFairness ==
    /\ WF_vars(\E rec \in sending[1] : SendStep(1, rec))
    /\ WF_vars(\E rec \in sending[1] : EndDispatch(1, rec))
    /\ \A q \in Servers \ {1} : WF_vars(LinkRecv(1, q))
    /\ \A q \in Servers \ {1} : WF_vars(LinkWriteOk(1, q))
    /\ WF_vars(LinkUnregister(1, 2))
    /\ WF_vars(LinkReconnect(1, 2))

PeerLinkSpec == LinkInit /\ [][PeerLinkNext]_vars /\ PeerLinkFairness

\* C34: a write to a peer that fails is followed by the removal of the link
\* from peer_connections, which discards the frames still queued, after
\* which the task goes on to reconnect; a frame handed in while the link is
\* not registered is not queued.
C34_FailedLinkIsRemoved ==
    (link_task[1][2].at = "failed") ~> (2 \notin peer_connections[1])

\* ---------------------------------------------------------- LeaderQuery

\* Elections from the start of the cluster, while a client asks server 1
\* who the leader is.
QueryNext ==
    \/ \E s \in Servers : InitialElection(s)
    \/ \E s \in Servers : SpawnedElection(s)
    \/ \E s \in Servers : \E r \in rounds[s] : ElectionTimeout(s, r)
    \/ \E p, q \in Servers : HandleElection(p, q)
    \/ \E p, q \in Servers : HandleAlive(p, q)
    \/ \E p, q \in Servers : HandleCoordinator(p, q)
    \/ Tick
    \/ ClientAsksLeader(1)
    \/ HandleLeaderQuery(1)

QuerySpec == RoundsInit /\ [][QueryNext]_vars

\* C36: a LeaderQuery is answered with a LeaderResponse carrying
\* current_leader exactly when current_leader is set; otherwise nothing is
\* written; either way the connection stays open, the next frame can be read,
\* and no state of the server changes.
C36_AnswersWhenLeaderKnown ==
    [][\A s \in Servers :
          (query_conn'[s].read = query_conn[s].read + 1)
          => /\ IF current_leader[s] # None
                THEN query_conn'[s].replies = Append(query_conn[s].replies,
                         [type |-> "LeaderResponse", leader_id |-> current_leader[s]])
                ELSE query_conn'[s].replies = query_conn[s].replies
             /\ query_conn'[s].open
             /\ query_conn'[s].unread = query_conn[s].unread - 1
             /\ UNCHANGED serverVars]_vars

\* Server 1 has read two LeaderQuery frames on one connection: the first
\* before it knew a leader, unanswered, the second after, answered.
C36_Witness ==
    /\ query_conn[1].read = 2 /\ query_conn[1].open
    /\ Len(query_conn[1].replies) = 1
    /\ query_conn[1].replies[1].leader_id = current_leader[1]

\* ------------------------------------------------------- the load score

\* The readings of the probe: CPU and available memory in percent.
Percents == {0, 50, 100}

PriorityInit ==
    /\ ClusterAtRest
    /\ ReaderIdle /\ CodecIdle /\ PercentileIdle /\ MetricsIdle
    /\ \E c, a \in Percents : probe = [cpu |-> c, tasks |-> 0, mem |-> a]
    /\ last_priority = NoPriority

PriorityNext == ProbeTaskStarted \/ CalculatePriority

PrioritySpec == PriorityInit /\ [][PriorityNext]_vars

\* The score is kept times ten; 100.0 is 1000.
FullScore == 1000

\* C37 as stated: with the CPU and memory readings as they are, a higher
\* task count gives a higher score, whatever the count; the score is within
\* [0, 100].
C37_MoreTasksHigherScore ==
    [][(last_priority.sampled /\ last_priority'.tasks > last_priority.tasks)
       => /\ last_priority'.score > last_priority.score
          /\ last_priority'.score \in 0..FullScore]_vars

\* C37, amended: a higher task count never gives a lower score, and gives a
\* higher one exactly when the earlier count was below 10; from 10 tasks on
\* the score stays what it is.  The score is within [0, 100].
C37_ScoreSaturatesAtTen ==
    [][(last_priority.sampled /\ last_priority'.tasks > last_priority.tasks)
       => /\ last_priority'.score >= last_priority.score
          /\ (last_priority'.score > last_priority.score) <=> (last_priority.tasks < 10)
          /\ last_priority'.score \in 0..FullScore]_vars

\* The score calculated for 11 tasks: it is the one for 10 tasks.
C37_Witness ==
    /\ last_priority.sampled /\ last_priority.tasks = 11
    /\ probe.tasks = 11
    /\ last_priority.score = calculate_priority(probe.cpu, 10, probe.mem)

\* ------------------------------------------------- a peer that is gone

\* The second in which server 1 was killed.
CrashedAt == MaxTime - 2

\* The Heartbeat frames server 1 wrote before it was killed.
LastFrames ==
    {[type |-> "Heartbeat", from_id |-> 1, timestamp |-> ts, load |-> l] :
        ts \in 1..CrashedAt, l \in {0, 20}}

LastSeqs == UNION {[1..n -> LastFrames] : n \in 0..MaxBeats}

\* A cluster led by server 2 a second after server 1 was killed.  The last
\* Heartbeat frames of server 1 are still unread at server 2, whose monitor
\* is due.
OutageInit ==
    /\ frames0 \in LastSeqs
    /\ history0 = EmptyMap
    /\ now = CrashedAt + 1
    /\ clock_skew = InStep
    /\ alive = Servers \ {1}
    /\ sys = [s \in Servers |-> [cpu |-> 0, mem |-> 100]]
    /\ active_tasks = [s \in Servers |-> 0]
    /\ current_leader = [s \in Servers |-> 2]
    /\ received_alive = [s \in Servers |-> FALSE]
    /\ peer_connections = [s \in Servers |-> Servers \ {s}]
    /\ links = [EmptyLinks EXCEPT ![1][2] = frames0]
    /\ \E seen \in 1..CrashedAt :
          last_heartbeat_times = [s \in Servers |-> [p \in Servers \ {s} |->
              IF p = 1 THEN seen ELSE now]]
    /\ peer_loads = [s \in Servers |-> [p \in Servers \ {s} |-> get_load(p)]]
    /\ task_history = [s \in Servers |-> EmptyMap]
    /\ rounds = [s \in Servers |-> {}]
    /\ round_count = [s \in Servers |-> 0]
    /\ spawned = [s \in Servers |-> 0]
    /\ startup = {}
    /\ hb_due = [s \in Servers |-> FALSE]
    /\ mon_due = [s \in Servers |-> s \in alive]
    /\ mon_busy = [s \in Servers |-> FALSE]
    /\ crashes = 1
    /\ running = [s \in Servers |-> {}]
    /\ ran = {}
    /\ declared = {}
    /\ classified = [s \in Servers |-> {}]
    /\ ClientIdle
    /\ StepsIdle
    /\ PureIdle

\* The survivors' heartbeats and failure-detector scans, lock by lock.
OutageNext ==
    \/ \E p, q \in Servers : HeartbeatWriteTime(p, q)
    \/ \E p, q \in Servers : HeartbeatWriteLoad(p, q)
    \/ \E s \in Servers : ScanCollect(s)
    \/ \E s, p \in Servers : ScanRemoveLoad(s, p)
    \/ \E s \in Servers : ScanRemoveSeen(s)
    \/ \E s \in Servers : SendHeartbeat(s)
    \/ Tick

\* Every spawned task of a live server is scheduled, and time passes.
OutageFairness ==
    /\ \A p, q \in Servers : WF_vars(HeartbeatWriteTime(p, q))
    /\ \A p, q \in Servers : WF_vars(HeartbeatWriteLoad(p, q))
    /\ \A s \in Servers : WF_vars(ScanCollect(s))
    /\ \A s, p \in Servers : WF_vars(ScanRemoveLoad(s, p))
    /\ \A s \in Servers : WF_vars(ScanRemoveSeen(s))
    /\ \A s \in Servers : WF_vars(SendHeartbeat(s))
    /\ WF_vars(Tick)

OutageSpec == OutageInit /\ [][OutageNext]_vars /\ OutageFairness

\* C38: a crashed peer is eventually absent from the PeerLoad map of every
\* live peer and stays absent, also when its last heartbeat is handled while
\* the scan that classifies it is in progress.
C38_CrashedPeerForgotten ==
    <>[](\A q \in alive : \A p \in Servers \ alive : p \notin DOMAIN peer_loads[q])

\* ---------------------------------------- a peer no heartbeat is held of

\* The frames server 3 wrote to server 2 before it was killed: it had won an
\* election and named itself for a request.
SilentFrames ==
    {[type |-> "HistoryAdd", key |-> k, assigned_server_id |-> 3] : k \in Keys}
    \cup {[type |-> "Coordinator", leader_id |-> 3]}

SilentSeqs == UNION {[1..n -> SilentFrames] : n \in 0..MaxSweepFrames}

\* The peers server s holds a heartbeat of.
heard_of(s, known) == IF known THEN Servers \ {s} ELSE Servers \ {s, 3}

\* Servers 1 (the leader) and 2 in service; server 3 has been killed.  The
\* survivors either never read a heartbeat of it or read the last one longer
\* ago than the failure timeout.  Frames server 3 had written wait at
\* server 2.
SilentInit ==
    /\ frames0 \in SilentSeqs
    /\ history0 = EmptyMap
    /\ now = MaxTime - 2
    /\ clock_skew = InStep
    /\ alive = Servers \ {3}
    /\ sys = [s \in Servers |-> [cpu |-> 0, mem |-> 100]]
    /\ active_tasks = [s \in Servers |-> 0]
    /\ current_leader = [s \in Servers |-> 1]
    /\ received_alive = [s \in Servers |-> FALSE]
    /\ peer_connections = [s \in Servers |-> Servers \ {s}]
    /\ links = [EmptyLinks EXCEPT ![3][2] = frames0]
    /\ \E known \in BOOLEAN :
          /\ last_heartbeat_times = [s \in Servers |-> [p \in heard_of(s, known) |->
                 IF p = 3 THEN now - failure_timeout_secs - 1 ELSE now]]
          /\ peer_loads = [s \in Servers |-> [p \in heard_of(s, known) |-> get_load(p)]]
    /\ task_history = [s \in Servers |-> EmptyMap]
    /\ rounds = [s \in Servers |-> {}]
    /\ round_count = [s \in Servers |-> 0]
    /\ spawned = [s \in Servers |-> 0]
    /\ startup = {}
    /\ hb_due = [s \in Servers |-> FALSE]
    /\ mon_due = [s \in Servers |-> s \in alive]
    /\ mon_busy = [s \in Servers |-> FALSE]
    /\ crashes = 1
    /\ running = [s \in Servers |-> {}]
    /\ ran = {}
    /\ declared = {}
    /\ classified = [s \in Servers |-> {}]
    /\ ClientIdle
    /\ StepsIdle
    /\ PureIdle

\* The survivors' heartbeats, the failure detector lock by lock, and the
\* frames read meanwhile.
SilentNext ==
    \/ \E s \in Servers : SendHeartbeat(s)
    \/ \E p, q \in Servers : HandleHeartbeat(p, q)
    \/ \E s \in Servers : ScanCollect(s)
    \/ \E s, p \in Servers : ScanRemoveLoad(s, p)
    \/ \E s \in Servers : SweepCollect(s)
    \/ \E s \in Servers : SweepRemove(s)
    \/ \E p, q \in Servers : HandleHistoryAdd(p, q)
    \/ \E p, q \in Servers : HandleCoordinator(p, q)
    \/ Tick

SilentSpec == SilentInit /\ [][SilentNext]_vars

\* The monitor of s has peer p in hand: collected, or being removed and swept.
UnderClassification(s, p) ==
    \/ p \in mon_pc[s].todo
    \/ mon_pc[s].cur = p
    \/ orphaned_tasks[s].peer = p

\* The monitor of s takes a step.
MonitorStep(s) ==
    \/ mon_due[s] /\ ~mon_due'[s]
    \/ mon_pc'[s] # mon_pc[s]
    \/ orphaned_tasks'[s] # orphaned_tasks[s]

\* C39: a scan collects only peers that have an entry in LastSeen.  While a
\* peer has none and is not in the monitor's hands, no step of the monitor
\* classifies it, sweeps the ledger or touches the leader slot.
C39_OnlySeenPeersClassified ==
    [][\A s \in Servers :
          /\ mon_pc'[s].todo \ mon_pc[s].todo \subseteq DOMAIN last_heartbeat_times[s]
          /\ \A p \in Servers \ {s} :
                (/\ p \notin DOMAIN last_heartbeat_times[s]
                 /\ ~UnderClassification(s, p)
                 /\ MonitorStep(s))
                => /\ p \notin mon_pc'[s].todo
                   /\ mon_pc'[s].cur # p
                   /\ orphaned_tasks'[s].peer # p
                   /\ classified'[s] = classified[s]
                   /\ task_history'[s] = task_history[s]
                   /\ current_leader'[s] = current_leader[s]]_vars

\* Server 2 never held a heartbeat of server 3, holds it to be the leader and
\* the assignee of a request, and has scanned in the last second of the run:
\* server 3 was never classified.
C39_Witness ==
    /\ now = MaxTime /\ ~mon_due[2]
    /\ 3 \notin DOMAIN last_heartbeat_times[2]
    /\ ~UnderClassification(2, 3)
    /\ 3 \notin classified[2]
    /\ current_leader[2] = 3
    /\ \E k \in DOMAIN task_history[2] : task_history[2][k] = 3

\* --------------------------------------- wall clocks a constant apart

\* Server 1's wall clock is this many seconds behind or ahead of the others',
\* or in step with them.
MaxSkew == 2

ClockOffsets == {0 - MaxSkew, 0, MaxSkew}

\* A cluster in service led by server 3, every server alive and every
\* heartbeat of this second read: a peer's timestamp is the second of the
\* peer's own clock.
ClockInit ==
    /\ frames0 = <<>>
    /\ history0 = EmptyMap
    /\ now = MaxTime - 1
    /\ \E d \in ClockOffsets : clock_skew = [s \in Servers |-> IF s = 1 THEN d ELSE 0]
    /\ alive = Servers
    /\ sys = [s \in Servers |-> [cpu |-> 0, mem |-> 100]]
    /\ active_tasks = [s \in Servers |-> 0]
    /\ current_leader = [s \in Servers |-> 3]
    /\ received_alive = [s \in Servers |-> FALSE]
    /\ peer_connections = [s \in Servers |-> Servers \ {s}]
    /\ links = EmptyLinks
    /\ last_heartbeat_times = [s \in Servers |-> [p \in Servers \ {s} |->
           current_timestamp(p)]]
    /\ peer_loads = [s \in Servers |-> [p \in Servers \ {s} |-> get_load(p)]]
    /\ task_history = [s \in Servers |-> EmptyMap]
    /\ rounds = [s \in Servers |-> {}]
    /\ round_count = [s \in Servers |-> 0]
    /\ spawned = [s \in Servers |-> 0]
    /\ startup = {}
    /\ hb_due = [s \in Servers |-> FALSE]
    /\ mon_due = [s \in Servers |-> TRUE]
    /\ mon_busy = [s \in Servers |-> FALSE]
    /\ crashes = 0
    /\ running = [s \in Servers |-> {}]
    /\ ran = {}
    /\ declared = {}
    /\ classified = [s \in Servers |-> {}]
    /\ ClientIdle
    /\ StepsIdle
    /\ PureIdle

\* Every server sends its heartbeat each second and every heartbeat is read
\* within that second; the monitors scan, in either kind of build.
ClockNext ==
    \/ \E s \in Servers : SendHeartbeat(s)
    \/ \E p, q \in Servers : HandleHeartbeat(p, q)
    \/ \E s \in Servers : ScanCollect(s)
    \/ \E s \in Servers : ScanPanics(s)
    \/ \E s, p \in Servers : ScanRemoveLoad(s, p)
    \/ \E s \in Servers : ScanRemoveSeen(s)
    \/ Tick

ClockSpec == ClockInit /\ [][ClockNext]_vars

\* C40: a live peer whose heartbeats reach Q every second is never classified
\* failed by Q, whatever constant offset there is between their wall clocks:
\* its PeerLoad and LastSeen entries stay, and no election is started on its
\* account.
C40_LivePeerNeverSuspected ==
    \A q \in alive : \A p \in alive \ {q} :
        /\ p \notin mon_pc[q].todo /\ mon_pc[q].cur # p
        /\ p \notin classified[q]
        /\ p \in DOMAIN last_heartbeat_times[q]
        /\ p \in DOMAIN peer_loads[q]
        /\ rounds[q] = {}

====
